---- MODULE Spec2Model ----
(***************************************************************************)
(* Model of package async (src/async/promise.go): Promise[T], its producer *)
(* goroutine, the wait surface (Await, AwaitWithTimeout, AwaitWithContext) *)
(* and the combinators built on them.                                      *)
(*                                                                         *)
(* Every channel of a Promise is made with capacity 1, so a channel is a   *)
(* sequence of length at most 1; a send blocks while it is full and a      *)
(* receive blocks while it is empty.  The critical sections under p.mu are *)
(* atomic steps; channel operations are steps of their own.                *)
(***************************************************************************)
EXTENDS Integers, Sequences, FiniteSets, TLC

\* ---------------------------------------------------------------- bounds
NumObs == 2          \* goroutines of the caller that wait on a promise
MaxCalls == 2        \* wait calls they make in all
MaxVal == 1          \* executors return the values 0..MaxVal (0 is T's zero value)
NumInputs == 2       \* promises handed to a combinator
MaxGiven == 1        \* inputs of a combinator that is also called with none

\* ------------------------------------------------------- values and errors
Values == 0..MaxVal
Nil == "nil"
Errors == {"e1", "e2"}
Payloads == {"boom"}
CtxErrs == {"context canceled", "context deadline exceeded"}

\* const ( Pending PromiseState = iota; Fulfilled; Rejected )
Pending == 0
Fulfilled == 1
Rejected == 2

\* make(chan T, 1)
ChanCap == 1

\* fmt.Errorf("panic: %v", r)
PanicError(r) == "panic: " \o r

\* fmt.Errorf("promise timeout after %v", timeout)
TimeoutError == "promise timeout"

\* ------------------------------------------------------------- the agents
\* Promise 0 is the promise the callers hold; 1..NumInputs are the inputs of
\* a combinator.  Agents are the goroutines that run a wait: the callers'
\* observers 1..NumObs, and one watcher per combinator input.
Promises == 0..NumInputs
Inputs == 1..NumInputs
Obs == 1..NumObs
Watcher(i) == NumObs + i
Watchers == {Watcher(i) : i \in Inputs}
Agents == Obs \cup Watchers
Ops == {"Await", "AwaitWithTimeout", "AwaitWithContext"}

\* Observers are interchangeable goroutines: a configuration lists their
\* operations in this order.
OpRank(op) ==
    CASE op = "Await" -> 1
      [] op = "AwaitWithTimeout" -> 2
      [] op = "AwaitWithContext" -> 3
      [] OTHER -> 4

VARIABLES
    kind,     \* how each promise was made: NewPromise, Resolve, Reject, a combinator
    state,    \* Promise.state
    value,    \* Promise.value
    error,    \* Promise.error
    result,   \* Promise.result, chan T
    err,      \* Promise.err, chan error
    done,     \* Promise.done, chan bool
    prod,     \* position of the producer goroutine of NewPromise
    local,    \* its locals: result, err := executor(), or the recovered r
    plan,     \* the wait operation an agent calls
    target,   \* the promise it calls it on
    pc,       \* position of the agent inside the call
    ret,      \* what its last call returned
    calls,    \* calls it has started
    timer,    \* time.After(timeout) of the current AwaitWithTimeout has fired
    ctx,      \* ctx.Err() of the context an observer passes
    results,  \* All, AllSettled: the slice results
    errors,   \* All, Any: the slice errors
    wg,       \* All, AllSettled, Any: sync.WaitGroup counter
    chResult, \* Race, Any: the local channel result, chan T
    chErr,    \* Race: the local channel err, chan error
    closed,   \* Any: close(result) has been executed
    handlers, \* the handlers a combinator was given (the others are nil)
    invoked,  \* how often each handler has been called
    snapshot  \* what the last GetState, IsPending, IsFulfilled or IsRejected returned

promiseVars == <<state, value, error, result, err, done>>
prodVars == <<prod, local>>
agentVars == <<plan, target, pc, ret, calls, timer, ctx>>
combVars == <<chResult, chErr, closed, handlers, invoked>>
allVars == <<results, errors, wg, combVars>>
vars == <<kind, state, value, error, result, err, done, prod, local,
          plan, target, pc, ret, calls, timer, ctx, results, errors, wg,
          chResult, chErr, closed, handlers, invoked, snapshot>>

\* The combinators whose promise holds a slice: Promise[[]T], Promise[[]PromiseResult[T]]
SliceKinds == {"All", "AllSettled"}

\* var zero T
Zero(p) == IF kind[p] \in SliceKinds THEN <<>> ELSE 0

\* var result T; var err error; r of recover(), before the executor has ended
NoLocal(k) == [result |-> IF k \in SliceKinds THEN <<>> ELSE 0, err |-> Nil, r |-> Nil]

\* ------------------------------------------------------------ construction
\* NewPromise: the struct literal; the goroutine is started and stands at
\* the call of the executor.
NewPromise(k) ==
    [kind |-> k, state |-> Pending, value |-> 0, error |-> Nil,
     result |-> <<>>, err |-> <<>>, done |-> <<>>, prod |-> "exec"]

Resolve(v) ==
    [kind |-> "Resolve", state |-> Fulfilled, value |-> v, error |-> Nil,
     result |-> <<v>>, err |-> <<>>, done |-> <<TRUE>>, prod |-> "none"]

Reject(e) ==
    [kind |-> "Reject", state |-> Rejected, value |-> 0, error |-> e,
     result |-> <<>>, err |-> <<e>>, done |-> <<TRUE>>, prod |-> "none"]

\* A promise no goroutine of the configuration refers to.
Unused ==
    [kind |-> "unused", state |-> Pending, value |-> 0, error |-> Nil,
     result |-> <<>>, err |-> <<>>, done |-> <<>>, prod |-> "none"]

\* The promises of the caller's own making: NewPromise(executor), Resolve(v)
\* or Reject(e).
Leaves ==
    {NewPromise("NewPromise")}
        \cup {Resolve(v) : v \in Values}
        \cup {Reject(e) : e \in Errors \cup {Nil}}

\* The promises as constructed: made[p] is the struct of promise p.
Made(made) ==
    /\ kind = [p \in Promises |-> made[p].kind]
    /\ state = [p \in Promises |-> made[p].state]
    /\ value = [p \in Promises |-> IF made[p].kind \in SliceKinds THEN <<>> ELSE made[p].value]
    /\ error = [p \in Promises |-> made[p].error]
    /\ result = [p \in Promises |-> made[p].result]
    /\ err = [p \in Promises |-> made[p].err]
    /\ done = [p \in Promises |-> made[p].done]
    /\ prod = [p \in Promises |-> made[p].prod]
    /\ local = [p \in Promises |-> NoLocal(made[p].kind)]

\* No snapshot read has been called.
NoSnapshot == [op |-> "none", out |-> FALSE]

\* Observers hold promise 0; the watcher of input i holds promise i.
AgentsInit(ops) ==
    /\ plan = [a \in Agents |-> IF a \in Obs THEN ops[a] ELSE "none"]
    /\ target = [a \in Agents |-> IF a \in Obs THEN 0 ELSE a - NumObs]
    /\ pc = [a \in Agents |-> "idle"]
    /\ ret = [a \in Agents |-> [value |-> Zero(IF a \in Obs THEN 0 ELSE a - NumObs),
                                 err |-> Nil]]
    /\ calls = [a \in Agents |-> 0]
    /\ timer = [a \in Agents |-> FALSE]
    /\ ctx = [a \in Agents |-> Nil]
    /\ snapshot = NoSnapshot

AllIdle ==
    /\ results = [i \in Inputs |-> 0]
    /\ errors = [i \in Inputs |-> Nil]
    /\ wg = 0

\* The handler parameters of Then, ThenPromise, Catch and Finally.
Handlers == {"onFulfilled", "onRejected", "onFinally"}

\* No local channel of a combinator exists, and no handler was given or called.
CombIdle ==
    /\ chResult = <<>>
    /\ chErr = <<>>
    /\ closed = FALSE
    /\ handlers = {}
    /\ invoked = [h \in Handlers |-> 0]

\* One promise, made by NewPromise, Resolve or Reject, and NumObs observers,
\* each with the wait operation it calls ("none": it never waits).
Init ==
    /\ \E leaf \in Leaves : Made([p \in Promises |-> IF p = 0 THEN leaf ELSE Unused])
    /\ \E ops \in [Obs -> Ops \cup {"none"}] :
          /\ \A o1, o2 \in Obs : o1 < o2 => OpRank(ops[o1]) <= OpRank(ops[o2])
          /\ AgentsInit(ops)
    /\ AllIdle
    /\ CombIdle

\* ------------------------------------------------- the producer goroutine
\* result, err := executor()  (the executor of a plain NewPromise: any
\* function; when it returns an error the value it returns is never used).
ExecutorReturns(p, v, e) ==
    /\ kind[p] = "NewPromise"
    /\ prod[p] = "exec"
    /\ prod' = [prod EXCEPT ![p] = "settle"]
    /\ local' = [local EXCEPT ![p] = [result |-> IF e = Nil THEN v ELSE 0,
                                      err |-> e, r |-> Nil]]
    /\ UNCHANGED <<kind, snapshot, promiseVars, agentVars, allVars>>

\* executor() panics with payload r: the deferred function runs.
ExecutorPanics(p, r) ==
    /\ kind[p] = "NewPromise"
    /\ prod[p] = "exec"
    /\ prod' = [prod EXCEPT ![p] = "recover"]
    /\ local' = [local EXCEPT ![p] = [result |-> 0, err |-> Nil, r |-> r]]
    /\ UNCHANGED <<kind, snapshot, promiseVars, agentVars, allVars>>

\* Mutant of Settle: the error of the executor is not looked at.
SettleIgnoresErr(p) ==
    /\ prod[p] = "settle"
    /\ state' = [state EXCEPT ![p] = Fulfilled]
    /\ value' = [value EXCEPT ![p] = local[p].result]
    /\ error' = error
    /\ prod' = [prod EXCEPT ![p] = "send"]
    /\ UNCHANGED <<kind, snapshot, result, err, done, local, agentVars, allVars>>

\* Mutant of Settle: the critical section writes the state only; value and
\* error are not written.
SettleWithoutValue(p) ==
    /\ prod[p] = "settle"
    /\ state' = [state EXCEPT ![p] = IF local[p].err # Nil THEN Rejected ELSE Fulfilled]
    /\ prod' = [prod EXCEPT ![p] = "send"]
    /\ UNCHANGED <<kind, snapshot, value, error, result, err, done, local, agentVars, allVars>>

\* Mutant of Settle: the error of the executor is stored, but the state is
\* set to Fulfilled all the same.
SettleFulfilsWithErr(p) ==
    /\ prod[p] = "settle"
    /\ state' = [state EXCEPT ![p] = Fulfilled]
    /\ IF local[p].err # Nil
       THEN /\ error' = [error EXCEPT ![p] = local[p].err]
            /\ value' = value
       ELSE /\ value' = [value EXCEPT ![p] = local[p].result]
            /\ error' = error
    /\ prod' = [prod EXCEPT ![p] = "send"]
    /\ UNCHANGED <<kind, snapshot, result, err, done, local, agentVars, allVars>>

\* p.mu.Lock(); state and error, or state and value; p.mu.Unlock()
Settle(p) ==
    /\ prod[p] = "settle"
    /\ IF local[p].err # Nil
       THEN /\ state' = [state EXCEPT ![p] = Rejected]
            /\ error' = [error EXCEPT ![p] = local[p].err]
            /\ value' = value
       ELSE /\ state' = [state EXCEPT ![p] = Fulfilled]
            /\ value' = [value EXCEPT ![p] = local[p].result]
            /\ error' = error
    /\ prod' = [prod EXCEPT ![p] = "send"]
    /\ UNCHANGED <<kind, snapshot, result, err, done, local, agentVars, allVars>>

\* Mutant of SendOutcome: a rejection is sent on err and, with the zero value,
\* on result as well.
SendOutcomeOnBoth(p) ==
    /\ prod[p] = "send"
    /\ Len(result[p]) < ChanCap
    /\ result' = [result EXCEPT ![p] = Append(@, local[p].result)]
    /\ IF local[p].err # Nil
       THEN /\ Len(err[p]) < ChanCap
            /\ err' = [err EXCEPT ![p] = Append(@, local[p].err)]
       ELSE err' = err
    /\ prod' = [prod EXCEPT ![p] = "notify"]
    /\ UNCHANGED <<kind, snapshot, state, value, error, done, local, agentVars, allVars>>

\* p.err <- err, or p.result <- result
SendOutcome(p) ==
    /\ prod[p] = "send"
    /\ IF local[p].err # Nil
       THEN /\ Len(err[p]) < ChanCap
            /\ err' = [err EXCEPT ![p] = Append(@, local[p].err)]
            /\ result' = result
       ELSE /\ Len(result[p]) < ChanCap
            /\ result' = [result EXCEPT ![p] = Append(@, local[p].result)]
            /\ err' = err
    /\ prod' = [prod EXCEPT ![p] = "notify"]
    /\ UNCHANGED <<kind, snapshot, state, value, error, done, local, agentVars, allVars>>

\* Mutant of NotifyDone: done is an unbuffered channel, so the send waits for a
\* goroutine that stands at a receive from it.
NotifyDoneUnbuffered(p) ==
    /\ prod[p] = "notify"
    /\ \E a \in Agents : target[a] = p /\ pc[a] \in {"recv", "select"}
    /\ done' = [done EXCEPT ![p] = Append(@, TRUE)]
    /\ prod' = [prod EXCEPT ![p] = "finished"]
    /\ UNCHANGED <<kind, snapshot, state, value, error, result, err, local, agentVars, allVars>>

\* p.done <- true
NotifyDone(p) ==
    /\ prod[p] = "notify"
    /\ Len(done[p]) < ChanCap
    /\ done' = [done EXCEPT ![p] = Append(@, TRUE)]
    /\ prod' = [prod EXCEPT ![p] = "finished"]
    /\ UNCHANGED <<kind, snapshot, state, value, error, result, err, local, agentVars, allVars>>

\* Mutant of Recover: the deferred function lacks the test r != nil, so it
\* also rejects a promise whose producer ended normally.
RecoverWithoutCheck(p) ==
    /\ \/ prod[p] = "recover"
       \/ prod[p] = "finished" /\ local[p].r = Nil
    /\ state' = [state EXCEPT ![p] = Rejected]
    /\ error' = [error EXCEPT ![p] = PanicError(local[p].r)]
    /\ prod' = [prod EXCEPT ![p] = "sendpanic"]
    /\ UNCHANGED <<kind, snapshot, value, result, err, done, local, agentVars, allVars>>

\* if r := recover(); r != nil { Lock; state = Rejected; error = ...; Unlock
Recover(p) ==
    /\ prod[p] = "recover"
    /\ state' = [state EXCEPT ![p] = Rejected]
    /\ error' = [error EXCEPT ![p] = PanicError(local[p].r)]
    /\ prod' = [prod EXCEPT ![p] = "sendpanic"]
    /\ UNCHANGED <<kind, snapshot, value, result, err, done, local, agentVars, allVars>>

\* p.err <- p.error
SendPanic(p) ==
    /\ prod[p] = "sendpanic"
    /\ Len(err[p]) < ChanCap
    /\ err' = [err EXCEPT ![p] = Append(@, error[p])]
    /\ prod' = [prod EXCEPT ![p] = "notifypanic"]
    /\ UNCHANGED <<kind, snapshot, state, value, error, result, done, local, agentVars, allVars>>

\* Mutant of NotifyPanic: the deferred function does not send on done.
NotifyPanicMissing(p) ==
    /\ prod[p] = "notifypanic"
    /\ prod' = [prod EXCEPT ![p] = "finished"]
    /\ UNCHANGED <<kind, snapshot, promiseVars, local, agentVars, allVars>>

\* p.done <- true  (in the deferred function)
NotifyPanic(p) ==
    /\ prod[p] = "notifypanic"
    /\ Len(done[p]) < ChanCap
    /\ done' = [done EXCEPT ![p] = Append(@, TRUE)]
    /\ prod' = [prod EXCEPT ![p] = "finished"]
    /\ UNCHANGED <<kind, snapshot, state, value, error, result, err, local, agentVars, allVars>>

\* ------------------------------------------------------------ the waits
\* The calls the observers 1..n have started.
RECURSIVE CallsMade(_)
CallsMade(n) == IF n = 0 THEN 0 ELSE calls[n] + CallsMade(n - 1)

\* Mutant of Call: NewPromise runs the executor in the goroutine of its caller,
\* so the caller gets to its wait only once the executor has returned.
CallAfterExecutor(o) ==
    /\ o \in Obs
    /\ plan[o] \in Ops
    /\ pc[o] \in {"idle", "returned"}
    /\ prod[target[o]] # "exec"
    /\ CallsMade(NumObs) < MaxCalls
    /\ calls' = [calls EXCEPT ![o] = @ + 1]
    /\ pc' = [pc EXCEPT ![o] = IF plan[o] = "Await" THEN "recv" ELSE "select"]
    /\ timer' = [timer EXCEPT ![o] = FALSE]
    /\ UNCHANGED <<kind, snapshot, promiseVars, prodVars, plan, target, ret, ctx, allVars>>

\* An observer calls its operation on its promise: Await stands at
\* <-p.done, the two bounded waits at their select (time.After starts a new
\* timer).
Call(o) ==
    /\ o \in Obs
    /\ plan[o] \in Ops
    /\ pc[o] \in {"idle", "returned"}
    /\ CallsMade(NumObs) < MaxCalls
    /\ calls' = [calls EXCEPT ![o] = @ + 1]
    /\ pc' = [pc EXCEPT ![o] = IF plan[o] = "Await" THEN "recv" ELSE "select"]
    /\ timer' = [timer EXCEPT ![o] = FALSE]
    /\ UNCHANGED <<kind, snapshot, promiseVars, prodVars, plan, target, ret, ctx, allVars>>

\* Await: <-p.done
AwaitRecvDone(a) ==
    /\ pc[a] = "recv"
    /\ Len(done[target[a]]) > 0
    /\ done' = [done EXCEPT ![target[a]] = Tail(@)]
    /\ pc' = [pc EXCEPT ![a] = "read"]
    /\ UNCHANGED <<kind, snapshot, state, value, error, result, err, prodVars,
                   plan, target, ret, calls, timer, ctx, allVars>>

\* Await: under p.mu.RLock(), (p.value, nil) if Fulfilled, else (zero, p.error)
AwaitReturn(a) ==
    /\ pc[a] = "read"
    /\ ret' = [ret EXCEPT ![a] =
                 IF state[target[a]] = Fulfilled
                 THEN [value |-> value[target[a]], err |-> Nil]
                 ELSE [value |-> Zero(target[a]), err |-> error[target[a]]]]
    /\ pc' = [pc EXCEPT ![a] = "returned"]
    /\ UNCHANGED <<kind, snapshot, promiseVars, prodVars, plan, target, calls, timer, ctx, allVars>>

\* The duration of time.After(timeout) elapses.
TimerFires(o) ==
    /\ plan[o] = "AwaitWithTimeout"
    /\ pc[o] = "select"
    /\ ~timer[o]
    /\ timer' = [timer EXCEPT ![o] = TRUE]
    /\ UNCHANGED <<kind, snapshot, promiseVars, prodVars, plan, target, pc, ret, calls, ctx, allVars>>

\* The owner of the context cancels it, or its deadline passes.
Cancel(o, reason) ==
    /\ plan[o] = "AwaitWithContext"
    /\ ctx[o] = Nil
    /\ ctx' = [ctx EXCEPT ![o] = reason]
    /\ UNCHANGED <<kind, snapshot, promiseVars, prodVars, plan, target, pc, ret, calls, timer, allVars>>

\* select case <-p.done: return p.Await() }: the receive takes the message,
\* and the call goes on into Await, which stands at <-p.done.
SelectDone(o) ==
    /\ pc[o] = "select"
    /\ Len(done[target[o]]) > 0
    /\ done' = [done EXCEPT ![target[o]] = Tail(@)]
    /\ pc' = [pc EXCEPT ![o] = "recv"]
    /\ UNCHANGED <<kind, snapshot, state, value, error, result, err, prodVars,
                   plan, target, ret, calls, timer, ctx, allVars>>

\* Mutant of SelectTimeout: the timeout also rejects the promise.
SelectTimeoutRejects(o) ==
    /\ pc[o] = "select"
    /\ plan[o] = "AwaitWithTimeout"
    /\ timer[o]
    /\ ret' = [ret EXCEPT ![o] = [value |-> Zero(target[o]), err |-> TimeoutError]]
    /\ pc' = [pc EXCEPT ![o] = "returned"]
    /\ state' = [state EXCEPT ![target[o]] = IF @ = Pending THEN Rejected ELSE @]
    /\ error' = [error EXCEPT ![target[o]] =
                    IF state[target[o]] = Pending THEN TimeoutError ELSE @]
    /\ UNCHANGED <<kind, snapshot, value, result, err, done, prodVars, plan, target, calls,
                   timer, ctx, allVars>>

\* select case <-time.After(timeout): return zero, timeout error }
SelectTimeout(o) ==
    /\ pc[o] = "select"
    /\ plan[o] = "AwaitWithTimeout"
    /\ timer[o]
    /\ ret' = [ret EXCEPT ![o] = [value |-> Zero(target[o]), err |-> TimeoutError]]
    /\ pc' = [pc EXCEPT ![o] = "returned"]
    /\ UNCHANGED <<kind, snapshot, promiseVars, prodVars, plan, target, calls, timer, ctx, allVars>>

\* Mutant of SelectCancelled: the cancelled wait takes a completion that is
\* there with it.
SelectCancelledDrains(o) ==
    /\ pc[o] = "select"
    /\ plan[o] = "AwaitWithContext"
    /\ ctx[o] # Nil
    /\ ret' = [ret EXCEPT ![o] = [value |-> Zero(target[o]), err |-> ctx[o]]]
    /\ pc' = [pc EXCEPT ![o] = "returned"]
    /\ done' = [done EXCEPT ![target[o]] = <<>>]
    /\ UNCHANGED <<kind, snapshot, state, value, error, result, err, prodVars, plan, target,
                   calls, timer, ctx, allVars>>

\* select case <-ctx.Done(): return zero, ctx.Err() }
SelectCancelled(o) ==
    /\ pc[o] = "select"
    /\ plan[o] = "AwaitWithContext"
    /\ ctx[o] # Nil
    /\ ret' = [ret EXCEPT ![o] = [value |-> Zero(target[o]), err |-> ctx[o]]]
    /\ pc' = [pc EXCEPT ![o] = "returned"]
    /\ UNCHANGED <<kind, snapshot, promiseVars, prodVars, plan, target, calls, timer, ctx, allVars>>

\* ------------------------------------------------------ snapshot reads
\* GetState: p.mu.RLock(); return p.state
GetState(p) == state[p]

\* IsPending, IsFulfilled, IsRejected: p.GetState() == Pending, ...
IsPending(p) == GetState(p) = Pending
IsFulfilled(p) == GetState(p) = Fulfilled
IsRejected(p) == GetState(p) = Rejected

\* ------------------------------------------------------- specifications
ProducerStep(p) ==
    \/ Settle(p)
    \/ SendOutcome(p)
    \/ NotifyDone(p)
    \/ Recover(p)
    \/ SendPanic(p)
    \/ NotifyPanic(p)

Select(o) ==
    \/ SelectDone(o)
    \/ SelectTimeout(o)
    \/ SelectCancelled(o)

\* A step of a goroutine inside Await.
AwaitStep(a) ==
    \/ AwaitRecvDone(a)
    \/ AwaitReturn(a)

\* A step of the goroutine of agent a inside its wait call.
AgentStep(a) ==
    \/ AwaitStep(a)
    \/ Select(a)

Next ==
    \/ \E p \in Promises, v \in Values, e \in Errors \cup {Nil} : ExecutorReturns(p, v, e)
    \/ \E p \in Promises, r \in Payloads : ExecutorPanics(p, r)
    \/ \E p \in Promises : ProducerStep(p)
    \/ \E o \in Obs : Call(o)
    \/ \E a \in Agents : AgentStep(a)
    \/ \E o \in Obs : TimerFires(o)
    \/ \E o \in Obs, reason \in CtxErrs : Cancel(o, reason)

Spec == Init /\ [][Next]_vars

\* A goroutine that can take a step takes it, and a timer that was started fires.  The
\* executor may run for ever, and nobody has to call a wait or cancel a
\* context.
Fairness ==
    /\ \A p \in Promises : WF_vars(ProducerStep(p))
    /\ \A a \in Agents : WF_vars(AgentStep(a))
    /\ \A o \in Obs : WF_vars(TimerFires(o))

FairSpec == Spec /\ Fairness

\* ------------------------------------------------------------------ All
\* The promises a variadic combinator was given: promises ...*Promise[T]
Given == {i \in Inputs : kind[i] # "unused"}

\* Mutant of FirstError: the last non-nil entry of errors[i..], or nil.
LastError(errs, i) ==
    IF \E j \in DOMAIN errs : j >= i /\ errs[j] # Nil
    THEN errs[CHOOSE j \in DOMAIN errs :
                 j >= i /\ errs[j] # Nil /\ \A k \in DOMAIN errs : k > j => errs[k] = Nil]
    ELSE Nil

\* The first non-nil entry of errors[i..], or nil: for _, err := range errors
RECURSIVE FirstError(_, _)
FirstError(errs, i) ==
    IF i \notin DOMAIN errs THEN Nil
    ELSE IF errs[i] # Nil THEN errs[i]
    ELSE FirstError(errs, i + 1)

\* All(f1..fn), with one observer that calls Await on it: promise 0 is the
\* promise All returns, its inputs are promises made by NewPromise.
InitAll ==
    /\ Made([p \in Promises |-> IF p = 0 THEN NewPromise("All") ELSE NewPromise("NewPromise")])
    /\ AgentsInit([o \in Obs |-> IF o = 1 THEN "Await" ELSE "none"])
    /\ AllIdle
    /\ CombIdle

\* The executor of All up to wg.Wait(): results and errors are made, and
\* for every input wg.Add(1) and a goroutine that calls p.Await().
AllSpawn ==
    /\ kind[0] = "All"
    /\ prod[0] = "exec"
    /\ prod' = [prod EXCEPT ![0] = "wait"]
    /\ results' = [i \in Given |-> 0]
    /\ errors' = [i \in Given |-> Nil]
    /\ wg' = Cardinality(Given)
    /\ plan' = [a \in Agents |-> IF a \in {Watcher(i) : i \in Given} THEN "Await" ELSE plan[a]]
    /\ pc' = [a \in Agents |-> IF a \in {Watcher(i) : i \in Given} THEN "recv" ELSE pc[a]]
    /\ UNCHANGED <<kind, snapshot, promiseVars, local, target, ret, calls, timer, ctx, combVars>>

\* Mutant of AllStore: a result is put in the next free slot, in the order of
\* completion, not in the slot of its input.
AllStoreAppends(i) ==
    /\ kind[0] = "All"
    /\ pc[Watcher(i)] = "returned"
    /\ IF ret[Watcher(i)].err # Nil
       THEN /\ errors' = [errors EXCEPT ![i] = ret[Watcher(i)].err]
            /\ results' = results
       ELSE /\ results' = [results EXCEPT ![Cardinality(Given) - wg + 1] = ret[Watcher(i)].value]
            /\ errors' = errors
    /\ wg' = wg - 1
    /\ pc' = [pc EXCEPT ![Watcher(i)] = "exit"]
    /\ UNCHANGED <<kind, snapshot, promiseVars, prodVars, plan, target, ret, calls, timer, ctx,
                   combVars>>

\* The goroutine of input i after its Await: errors[index] = err or
\* results[index] = result, then the deferred wg.Done().
AllStore(i) ==
    /\ kind[0] = "All"
    /\ pc[Watcher(i)] = "returned"
    /\ IF ret[Watcher(i)].err # Nil
       THEN /\ errors' = [errors EXCEPT ![i] = ret[Watcher(i)].err]
            /\ results' = results
       ELSE /\ results' = [results EXCEPT ![i] = ret[Watcher(i)].value]
            /\ errors' = errors
    /\ wg' = wg - 1
    /\ pc' = [pc EXCEPT ![Watcher(i)] = "exit"]
    /\ UNCHANGED <<kind, snapshot, promiseVars, prodVars, plan, target, ret, calls, timer, ctx,
                   combVars>>

\* wg.Wait() returns; the executor returns (nil, err) for the first non-nil
\* entry of errors, else (results, nil).
AllJoin ==
    /\ kind[0] = "All"
    /\ prod[0] = "wait"
    /\ wg = 0
    /\ local' = [local EXCEPT ![0] =
                   IF FirstError(errors, 1) # Nil
                   THEN [result |-> <<>>, err |-> FirstError(errors, 1), r |-> Nil]
                   ELSE [result |-> [i \in Given |-> results[i]], err |-> Nil, r |-> Nil]]
    /\ prod' = [prod EXCEPT ![0] = "settle"]
    /\ UNCHANGED <<kind, snapshot, promiseVars, agentVars, allVars>>

AllStep ==
    \/ AllSpawn
    \/ \E i \in Inputs : AllStore(i)
    \/ AllJoin

NextAll ==
    \/ \E p \in Promises, v \in Values, e \in Errors \cup {Nil} : ExecutorReturns(p, v, e)
    \/ \E p \in Promises, r \in Payloads : ExecutorPanics(p, r)
    \/ \E p \in Promises : ProducerStep(p)
    \/ \E o \in Obs : Call(o)
    \/ \E a \in Agents : AwaitStep(a)
    \/ AllStep

SpecAll == InitAll /\ [][NextAll]_vars

FairnessAll ==
    /\ \A p \in Promises : WF_vars(ProducerStep(p))
    /\ \A a \in Agents : WF_vars(AwaitStep(a))
    /\ WF_vars(AllStep)

FairSpecAll == SpecAll /\ FairnessAll

\* ----------------------------------------------------------- AllSettled
\* type PromiseResult[T any] struct { Status string; Value T; Reason error }
PromiseResult(status, v, reason) == [Status |-> status, Value |-> v, Reason |-> reason]

\* results := make([]PromiseResult[T], len(promises)): zero structs
AllSettledIdle ==
    /\ results = [i \in Inputs |-> PromiseResult("", 0, Nil)]
    /\ errors = [i \in Inputs |-> Nil]
    /\ wg = 0

\* AllSettled(f1..fn), with one observer that calls Await on it.
InitAllSettled ==
    /\ Made([p \in Promises |->
              IF p = 0 THEN NewPromise("AllSettled") ELSE NewPromise("NewPromise")])
    /\ AgentsInit([o \in Obs |-> IF o = 1 THEN "Await" ELSE "none"])
    /\ AllSettledIdle
    /\ CombIdle

\* The executor of AllSettled up to wg.Wait(): for every input wg.Add(1) and
\* a goroutine that calls p.Await().
AllSettledSpawn ==
    /\ kind[0] = "AllSettled"
    /\ prod[0] = "exec"
    /\ prod' = [prod EXCEPT ![0] = "wait"]
    /\ results' = [i \in Given |-> PromiseResult("", 0, Nil)]
    /\ wg' = Cardinality(Given)
    /\ plan' = [a \in Agents |-> IF a \in {Watcher(i) : i \in Given} THEN "Await" ELSE plan[a]]
    /\ pc' = [a \in Agents |-> IF a \in {Watcher(i) : i \in Given} THEN "recv" ELSE pc[a]]
    /\ UNCHANGED <<kind, snapshot, promiseVars, local, target, ret, calls, timer, ctx, errors,
                   combVars>>

\* The goroutine of input i after its Await: results[index] is the record of
\* the outcome, then the deferred wg.Done().
AllSettledStore(i) ==
    /\ kind[0] = "AllSettled"
    /\ pc[Watcher(i)] = "returned"
    /\ results' = [results EXCEPT ![i] =
                     IF ret[Watcher(i)].err # Nil
                     THEN PromiseResult("rejected", 0, ret[Watcher(i)].err)
                     ELSE PromiseResult("fulfilled", ret[Watcher(i)].value, Nil)]
    /\ wg' = wg - 1
    /\ pc' = [pc EXCEPT ![Watcher(i)] = "exit"]
    /\ UNCHANGED <<kind, snapshot, promiseVars, prodVars, plan, target, ret, calls, timer, ctx,
                   errors, combVars>>

\* Mutant of AllSettledJoin: like All, the executor returns the reason of the
\* first rejected record as its error.
AllSettledJoinRejects ==
    /\ kind[0] = "AllSettled"
    /\ prod[0] = "wait"
    /\ wg = 0
    /\ local' = [local EXCEPT ![0] =
                   IF \E i \in Given : results[i].Status = "rejected"
                   THEN [result |-> <<>>,
                         err |-> results[CHOOSE i \in Given :
                                            results[i].Status = "rejected"].Reason,
                         r |-> Nil]
                   ELSE [result |-> [i \in Given |-> results[i]], err |-> Nil, r |-> Nil]]
    /\ prod' = [prod EXCEPT ![0] = "settle"]
    /\ UNCHANGED <<kind, snapshot, promiseVars, agentVars, allVars>>

\* Mutant of AllSettledJoin: the executor does not call wg.Wait() and returns
\* the slice as it is.
AllSettledJoinEarly ==
    /\ kind[0] = "AllSettled"
    /\ prod[0] = "wait"
    /\ local' = [local EXCEPT ![0] =
                   [result |-> [i \in Given |-> results[i]], err |-> Nil, r |-> Nil]]
    /\ prod' = [prod EXCEPT ![0] = "settle"]
    /\ UNCHANGED <<kind, snapshot, promiseVars, agentVars, allVars>>

\* wg.Wait() returns; return results, nil
AllSettledJoin ==
    /\ kind[0] = "AllSettled"
    /\ prod[0] = "wait"
    /\ wg = 0
    /\ local' = [local EXCEPT ![0] =
                   [result |-> [i \in Given |-> results[i]], err |-> Nil, r |-> Nil]]
    /\ prod' = [prod EXCEPT ![0] = "settle"]
    /\ UNCHANGED <<kind, snapshot, promiseVars, agentVars, allVars>>

AllSettledStep ==
    \/ AllSettledSpawn
    \/ \E i \in Inputs : AllSettledStore(i)
    \/ AllSettledJoin

NextAllSettled ==
    \/ \E p \in Promises, v \in Values, e \in Errors \cup {Nil} : ExecutorReturns(p, v, e)
    \/ \E p \in Promises, r \in Payloads : ExecutorPanics(p, r)
    \/ \E p \in Promises : ProducerStep(p)
    \/ \E o \in Obs : Call(o)
    \/ \E a \in Agents : AwaitStep(a)
    \/ AllSettledStep

SpecAllSettled == InitAllSettled /\ [][NextAllSettled]_vars

FairnessAllSettled ==
    /\ \A p \in Promises : WF_vars(ProducerStep(p))
    /\ \A a \in Agents : WF_vars(AwaitStep(a))
    /\ WF_vars(AllSettledStep)

FairSpecAllSettled == SpecAllSettled /\ FairnessAllSettled

\* ----------------------------------------------------------------- Race
\* Race(f1..fn), with one observer that calls Await on it.
InitRace ==
    /\ Made([p \in Promises |-> IF p = 0 THEN NewPromise("Race") ELSE NewPromise("NewPromise")])
    /\ AgentsInit([o \in Obs |-> IF o = 1 THEN "Await" ELSE "none"])
    /\ AllIdle
    /\ CombIdle

\* Mutant of RaceSpawn: the executor watches its inputs one after the other,
\* and starts with the first: only the goroutine of input 1 is started.
RaceSpawnFirstOnly ==
    /\ kind[0] = "Race"
    /\ prod[0] = "exec"
    /\ prod' = [prod EXCEPT ![0] = "select"]
    /\ chResult' = <<>>
    /\ chErr' = <<>>
    /\ plan' = [plan EXCEPT ![Watcher(1)] = "Await"]
    /\ pc' = [pc EXCEPT ![Watcher(1)] = "recv"]
    /\ UNCHANGED <<kind, snapshot, promiseVars, local, target, ret, calls, timer, ctx,
                   results, errors, wg, closed, handlers, invoked>>

\* The executor of Race up to its select: the channels result and err are
\* made, and for every input a goroutine that calls p.Await().
RaceSpawn ==
    /\ kind[0] = "Race"
    /\ prod[0] = "exec"
    /\ prod' = [prod EXCEPT ![0] = "select"]
    /\ chResult' = <<>>
    /\ chErr' = <<>>
    /\ plan' = [a \in Agents |-> IF a \in {Watcher(i) : i \in Given} THEN "Await" ELSE plan[a]]
    /\ pc' = [a \in Agents |-> IF a \in {Watcher(i) : i \in Given} THEN "recv" ELSE pc[a]]
    /\ UNCHANGED <<kind, snapshot, promiseVars, local, target, ret, calls, timer, ctx,
                   results, errors, wg, closed, handlers, invoked>>

\* Mutant of RaceDeliver: the sends are plain blocking sends, err <- e and
\* result <- res.
RaceDeliverBlocking(i) ==
    /\ kind[0] = "Race"
    /\ pc[Watcher(i)] = "returned"
    /\ IF ret[Watcher(i)].err # Nil
       THEN /\ Len(chErr) < ChanCap
            /\ chErr' = Append(chErr, ret[Watcher(i)].err)
            /\ chResult' = chResult
       ELSE /\ Len(chResult) < ChanCap
            /\ chResult' = Append(chResult, ret[Watcher(i)].value)
            /\ chErr' = chErr
    /\ pc' = [pc EXCEPT ![Watcher(i)] = "exit"]
    /\ UNCHANGED <<kind, snapshot, promiseVars, prodVars, plan, target, ret, calls, timer, ctx,
                   results, errors, wg, closed, handlers, invoked>>

\* The goroutine of input i after its Await: select { case err <- e: default: }
\* or select { case result <- res: default: }; the send is dropped when the
\* channel is full.
RaceDeliver(i) ==
    /\ kind[0] = "Race"
    /\ pc[Watcher(i)] = "returned"
    /\ IF ret[Watcher(i)].err # Nil
       THEN /\ chErr' = IF Len(chErr) < ChanCap THEN Append(chErr, ret[Watcher(i)].err)
                        ELSE chErr
            /\ chResult' = chResult
       ELSE /\ chResult' = IF Len(chResult) < ChanCap
                           THEN Append(chResult, ret[Watcher(i)].value)
                           ELSE chResult
            /\ chErr' = chErr
    /\ pc' = [pc EXCEPT ![Watcher(i)] = "exit"]
    /\ UNCHANGED <<kind, snapshot, promiseVars, prodVars, plan, target, ret, calls, timer, ctx,
                   results, errors, wg, closed, handlers, invoked>>

\* Mutant of RaceRecvResult: with nothing to wait for the executor returns
\* the zero value.
RaceRecvResultOrNone ==
    /\ kind[0] = "Race"
    /\ prod[0] = "select"
    /\ Len(chResult) > 0 \/ Given = {}
    /\ chResult' = IF Len(chResult) > 0 THEN Tail(chResult) ELSE chResult
    /\ local' = [local EXCEPT ![0] =
                   [result |-> IF Len(chResult) > 0 THEN Head(chResult) ELSE 0,
                    err |-> Nil, r |-> Nil]]
    /\ prod' = [prod EXCEPT ![0] = "settle"]
    /\ UNCHANGED <<kind, snapshot, promiseVars, agentVars, results, errors, wg, chErr, closed,
                   handlers, invoked>>

\* select { case res := <-result: return res, nil
RaceRecvResult ==
    /\ kind[0] = "Race"
    /\ prod[0] = "select"
    /\ Len(chResult) > 0
    /\ chResult' = Tail(chResult)
    /\ local' = [local EXCEPT ![0] = [result |-> Head(chResult), err |-> Nil, r |-> Nil]]
    /\ prod' = [prod EXCEPT ![0] = "settle"]
    /\ UNCHANGED <<kind, snapshot, promiseVars, agentVars, results, errors, wg, chErr, closed,
                   handlers, invoked>>

\* select { case e := <-err: return zero, e
RaceRecvErr ==
    /\ kind[0] = "Race"
    /\ prod[0] = "select"
    /\ Len(chErr) > 0
    /\ chErr' = Tail(chErr)
    /\ local' = [local EXCEPT ![0] = [result |-> 0, err |-> Head(chErr), r |-> Nil]]
    /\ prod' = [prod EXCEPT ![0] = "settle"]
    /\ UNCHANGED <<kind, snapshot, promiseVars, agentVars, results, errors, wg, chResult, closed,
                   handlers, invoked>>

RaceStep ==
    \/ RaceSpawn
    \/ \E i \in Inputs : RaceDeliver(i)
    \/ RaceRecvResult
    \/ RaceRecvErr

NextRace ==
    \/ \E p \in Promises, v \in Values, e \in Errors \cup {Nil} : ExecutorReturns(p, v, e)
    \/ \E p \in Promises, r \in Payloads : ExecutorPanics(p, r)
    \/ \E p \in Promises : ProducerStep(p)
    \/ \E o \in Obs : Call(o)
    \/ \E a \in Agents : AwaitStep(a)
    \/ RaceStep

SpecRace == InitRace /\ [][NextRace]_vars

FairnessRace ==
    /\ \A p \in Promises : WF_vars(ProducerStep(p))
    /\ \A a \in Agents : WF_vars(AwaitStep(a))
    /\ WF_vars(RaceStep)

FairSpecRace == SpecRace /\ FairnessRace

\* ------------------------------------------------------------------ Any
\* The %v of a []error: the elements in brackets, separated by spaces.
RECURSIVE JoinErrors(_)
JoinErrors(errs) ==
    IF errs = <<>> THEN ""
    ELSE IF Len(errs) = 1 THEN Head(errs)
    ELSE Head(errs) \o " " \o JoinErrors(Tail(errs))

\* fmt.Errorf("all promises rejected: %v", errors)
AllRejectedError(errs) == "all promises rejected: [" \o JoinErrors(errs) \o "]"

\* errors := make([]error, 0, len(promises))
AnyIdle ==
    /\ results = [i \in Inputs |-> 0]
    /\ errors = <<>>
    /\ wg = 0

\* Any(f1..fn), with one observer that calls Await on it.
InitAny ==
    /\ Made([p \in Promises |-> IF p = 0 THEN NewPromise("Any") ELSE NewPromise("NewPromise")])
    /\ AgentsInit([o \in Obs |-> IF o = 1 THEN "Await" ELSE "none"])
    /\ AnyIdle
    /\ CombIdle

\* The executor of Any up to its receive: the channel result and the slice
\* errors are made, for every input wg.Add(1) and a goroutine that calls
\* p.Await(), and the goroutine that closes result is started.
AnySpawn ==
    /\ kind[0] = "Any"
    /\ prod[0] = "exec"
    /\ prod' = [prod EXCEPT ![0] = "receive"]
    /\ chResult' = <<>>
    /\ closed' = FALSE
    /\ errors' = <<>>
    /\ wg' = Cardinality(Given)
    /\ plan' = [a \in Agents |-> IF a \in {Watcher(i) : i \in Given} THEN "Await" ELSE plan[a]]
    /\ pc' = [a \in Agents |-> IF a \in {Watcher(i) : i \in Given} THEN "recv" ELSE pc[a]]
    /\ UNCHANGED <<kind, snapshot, promiseVars, local, target, ret, calls, timer, ctx,
                   results, chErr, handlers, invoked>>

\* Mutant of AnyStore: the slice keeps only the error stored last.
AnyStoreKeepsLast(i) ==
    /\ kind[0] = "Any"
    /\ pc[Watcher(i)] = "returned"
    /\ IF ret[Watcher(i)].err # Nil
       THEN /\ errors' = <<ret[Watcher(i)].err>>
            /\ chResult' = chResult
       ELSE /\ chResult' = IF Len(chResult) < ChanCap
                           THEN Append(chResult, ret[Watcher(i)].value)
                           ELSE chResult
            /\ errors' = errors
    /\ wg' = wg - 1
    /\ pc' = [pc EXCEPT ![Watcher(i)] = "exit"]
    /\ UNCHANGED <<kind, snapshot, promiseVars, prodVars, plan, target, ret, calls, timer, ctx,
                   results, chErr, closed, handlers, invoked>>

\* The goroutine of input i after its Await: under mu, errors = append(errors,
\* err); or select { case result <- res: default: }; then the deferred
\* wg.Done().
AnyStore(i) ==
    /\ kind[0] = "Any"
    /\ pc[Watcher(i)] = "returned"
    /\ IF ret[Watcher(i)].err # Nil
       THEN /\ errors' = Append(errors, ret[Watcher(i)].err)
            /\ chResult' = chResult
       ELSE /\ chResult' = IF Len(chResult) < ChanCap
                           THEN Append(chResult, ret[Watcher(i)].value)
                           ELSE chResult
            /\ errors' = errors
    /\ wg' = wg - 1
    /\ pc' = [pc EXCEPT ![Watcher(i)] = "exit"]
    /\ UNCHANGED <<kind, snapshot, promiseVars, prodVars, plan, target, ret, calls, timer, ctx,
                   results, chErr, closed, handlers, invoked>>

\* Mutant of AnyClose: the closing goroutine does not call wg.Wait().
AnyCloseEarly ==
    /\ kind[0] = "Any"
    /\ prod[0] # "exec"
    /\ ~closed
    /\ closed' = TRUE
    /\ UNCHANGED <<kind, snapshot, promiseVars, prodVars, agentVars, results, errors, wg,
                   chResult, chErr, handlers, invoked>>

\* Mutant of AnyClose: the goroutine that closes result is started inside the
\* loop, so with no input nobody closes it.
AnyCloseUnlessEmpty ==
    /\ kind[0] = "Any"
    /\ prod[0] # "exec"
    /\ Given # {}
    /\ wg = 0
    /\ ~closed
    /\ closed' = TRUE
    /\ UNCHANGED <<kind, snapshot, promiseVars, prodVars, agentVars, results, errors, wg,
                   chResult, chErr, handlers, invoked>>

\* go func() { wg.Wait(); close(result) }()
AnyClose ==
    /\ kind[0] = "Any"
    /\ prod[0] # "exec"
    /\ wg = 0
    /\ ~closed
    /\ closed' = TRUE
    /\ UNCHANGED <<kind, snapshot, promiseVars, prodVars, agentVars, results, errors, wg,
                   chResult, chErr, handlers, invoked>>

\* Mutant of AnyRecvResult: the executor takes a value only after result
\* has been closed.
AnyRecvResultAfterClose ==
    /\ kind[0] = "Any"
    /\ prod[0] = "receive"
    /\ closed
    /\ Len(chResult) > 0
    /\ chResult' = Tail(chResult)
    /\ local' = [local EXCEPT ![0] = [result |-> Head(chResult), err |-> Nil, r |-> Nil]]
    /\ prod' = [prod EXCEPT ![0] = "settle"]
    /\ UNCHANGED <<kind, snapshot, promiseVars, agentVars, results, errors, wg, chErr, closed,
                   handlers, invoked>>

\* if res, ok := <-result; ok { return res, nil }: a value is in the channel
\* (closed or not).
AnyRecvResult ==
    /\ kind[0] = "Any"
    /\ prod[0] = "receive"
    /\ Len(chResult) > 0
    /\ chResult' = Tail(chResult)
    /\ local' = [local EXCEPT ![0] = [result |-> Head(chResult), err |-> Nil, r |-> Nil]]
    /\ prod' = [prod EXCEPT ![0] = "settle"]
    /\ UNCHANGED <<kind, snapshot, promiseVars, agentVars, results, errors, wg, chErr, closed,
                   handlers, invoked>>

\* res, ok := <-result with ok false: the channel is closed and empty;
\* return zero, fmt.Errorf("all promises rejected: %v", errors)
AnyRecvClosed ==
    /\ kind[0] = "Any"
    /\ prod[0] = "receive"
    /\ Len(chResult) = 0
    /\ closed
    /\ local' = [local EXCEPT ![0] =
                   [result |-> 0, err |-> AllRejectedError(errors), r |-> Nil]]
    /\ prod' = [prod EXCEPT ![0] = "settle"]
    /\ UNCHANGED <<kind, snapshot, promiseVars, agentVars, allVars>>

AnyStep ==
    \/ AnySpawn
    \/ \E i \in Inputs : AnyStore(i)
    \/ AnyClose
    \/ AnyRecvResult
    \/ AnyRecvClosed

NextAny ==
    \/ \E p \in Promises, v \in Values, e \in Errors \cup {Nil} : ExecutorReturns(p, v, e)
    \/ \E p \in Promises, r \in Payloads : ExecutorPanics(p, r)
    \/ \E p \in Promises : ProducerStep(p)
    \/ \E o \in Obs : Call(o)
    \/ \E a \in Agents : AwaitStep(a)
    \/ AnyStep

SpecAny == InitAny /\ [][NextAny]_vars

FairnessAny ==
    /\ \A p \in Promises : WF_vars(ProducerStep(p))
    /\ \A a \in Agents : WF_vars(AwaitStep(a))
    /\ WF_vars(AnyStep)

FairSpecAny == SpecAny /\ FairnessAny

\* -------------------------------------------------------------- Timeout
\* fmt.Errorf("operation timed out after %v", duration)
TimedOutError == "operation timed out"

\* Timeout(promise, duration) = Race(promise, NewPromise(timer)): promise 0
\* is the promise of that Race, input 1 is promise, input 2 is the timer
\* promise, whose goroutine stands in time.Sleep(duration).
InitTimeout ==
    /\ Made([p \in Promises |->
              IF p = 0 THEN NewPromise("Race")
              ELSE IF p = 1 THEN NewPromise("NewPromise")
              ELSE IF p = 2 THEN NewPromise("Timer")
              ELSE Unused])
    /\ AgentsInit([o \in Obs |-> IF o = 1 THEN "Await" ELSE "none"])
    /\ AllIdle
    /\ CombIdle

\* The executor of the timer promise: time.Sleep(duration) ends;
\* return zero, fmt.Errorf("operation timed out after %v", duration)
TimeoutExecutor(p) ==
    /\ kind[p] = "Timer"
    /\ prod[p] = "exec"
    /\ prod' = [prod EXCEPT ![p] = "settle"]
    /\ local' = [local EXCEPT ![p] = [result |-> 0, err |-> TimedOutError, r |-> Nil]]
    /\ UNCHANGED <<kind, snapshot, promiseVars, agentVars, allVars>>

NextTimeout ==
    \/ \E p \in Promises, v \in Values, e \in Errors \cup {Nil} : ExecutorReturns(p, v, e)
    \/ \E p \in Promises, r \in Payloads : ExecutorPanics(p, r)
    \/ \E p \in Promises : TimeoutExecutor(p)
    \/ \E p \in Promises : ProducerStep(p)
    \/ \E o \in Obs : Call(o)
    \/ \E a \in Agents : AwaitStep(a)
    \/ RaceStep

SpecTimeout == InitTimeout /\ [][NextTimeout]_vars

\* The sleep of the timer ends.
FairnessTimeout ==
    /\ \A p \in Promises : WF_vars(ProducerStep(p))
    /\ \A p \in Promises : WF_vars(TimeoutExecutor(p))
    /\ \A a \in Agents : WF_vars(AwaitStep(a))
    /\ WF_vars(RaceStep)

FairSpecTimeout == SpecTimeout /\ FairnessTimeout

\* ----------------------------------------------------------------- Then
\* The handlers a caller passes, when they are not nil: functions from the
\* value, or from the error, to a value of the result type.
OnFulfilled(v) == 10 + v

OnRejected(e) ==
    CASE e = "e1" -> 21
      [] e = "e2" -> 22
      [] OTHER -> 20

\* Then(p, onFulfilled, onRejected) with each handler given or nil, and one
\* observer that calls Await on the promise of Then; input 1 is p.
InitThen ==
    /\ Made([p \in Promises |->
              IF p = 0 THEN NewPromise("Then")
              ELSE IF p = 1 THEN NewPromise("NewPromise")
              ELSE Unused])
    /\ AgentsInit([o \in Obs |-> IF o = 1 THEN "Await" ELSE "none"])
    /\ AllIdle
    /\ chResult = <<>>
    /\ chErr = <<>>
    /\ closed = FALSE
    /\ handlers \in SUBSET {"onFulfilled", "onRejected"}
    /\ invoked = [h \in Handlers |-> 0]

\* select { case result := <-p.result: onFulfilled(result), nil if
\* onFulfilled != nil, else zero, nil
ThenRecvResult ==
    /\ kind[0] = "Then"
    /\ prod[0] = "exec"
    /\ Len(result[1]) > 0
    /\ result' = [result EXCEPT ![1] = Tail(@)]
    /\ IF "onFulfilled" \in handlers
       THEN /\ invoked' = [invoked EXCEPT !["onFulfilled"] = @ + 1]
            /\ local' = [local EXCEPT ![0] =
                           [result |-> OnFulfilled(Head(result[1])), err |-> Nil, r |-> Nil]]
       ELSE /\ invoked' = invoked
            /\ local' = [local EXCEPT ![0] = [result |-> 0, err |-> Nil, r |-> Nil]]
    /\ prod' = [prod EXCEPT ![0] = "settle"]
    /\ UNCHANGED <<kind, snapshot, state, value, error, err, done, agentVars, results, errors, wg,
                   chResult, chErr, closed, handlers>>

\* Mutant of ThenRecvErr: without onRejected the error is dropped.
ThenRecvErrDrops ==
    /\ kind[0] = "Then"
    /\ prod[0] = "exec"
    /\ Len(err[1]) > 0
    /\ err' = [err EXCEPT ![1] = Tail(@)]
    /\ IF "onRejected" \in handlers
       THEN /\ invoked' = [invoked EXCEPT !["onRejected"] = @ + 1]
            /\ local' = [local EXCEPT ![0] =
                           [result |-> OnRejected(Head(err[1])), err |-> Nil, r |-> Nil]]
       ELSE /\ invoked' = invoked
            /\ local' = [local EXCEPT ![0] = [result |-> 0, err |-> Nil, r |-> Nil]]
    /\ prod' = [prod EXCEPT ![0] = "settle"]
    /\ UNCHANGED <<kind, snapshot, state, value, error, result, done, agentVars, results, errors, wg,
                   chResult, chErr, closed, handlers>>

\* select { case err := <-p.err: onRejected(err), nil if onRejected != nil,
\* else zero, err
ThenRecvErr ==
    /\ kind[0] = "Then"
    /\ prod[0] = "exec"
    /\ Len(err[1]) > 0
    /\ err' = [err EXCEPT ![1] = Tail(@)]
    /\ IF "onRejected" \in handlers
       THEN /\ invoked' = [invoked EXCEPT !["onRejected"] = @ + 1]
            /\ local' = [local EXCEPT ![0] =
                           [result |-> OnRejected(Head(err[1])), err |-> Nil, r |-> Nil]]
       ELSE /\ invoked' = invoked
            /\ local' = [local EXCEPT ![0] = [result |-> 0, err |-> Head(err[1]), r |-> Nil]]
    /\ prod' = [prod EXCEPT ![0] = "settle"]
    /\ UNCHANGED <<kind, snapshot, state, value, error, result, done, agentVars, results, errors, wg,
                   chResult, chErr, closed, handlers>>

ThenStep ==
    \/ ThenRecvResult
    \/ ThenRecvErr

NextThen ==
    \/ \E p \in Promises, v \in Values, e \in Errors \cup {Nil} : ExecutorReturns(p, v, e)
    \/ \E p \in Promises, r \in Payloads : ExecutorPanics(p, r)
    \/ \E p \in Promises : ProducerStep(p)
    \/ \E o \in Obs : Call(o)
    \/ \E a \in Agents : AwaitStep(a)
    \/ ThenStep

SpecThen == InitThen /\ [][NextThen]_vars

FairnessThen ==
    /\ \A p \in Promises : WF_vars(ProducerStep(p))
    /\ \A a \in Agents : WF_vars(AwaitStep(a))
    /\ WF_vars(ThenStep)

FairSpecThen == SpecThen /\ FairnessThen

\* ---------------------------------------------------------------- Catch
\* Catch(p, onRejected) with the handler given or nil, and one observer that
\* calls Await on the promise of Catch; input 1 is p.
InitCatch ==
    /\ Made([p \in Promises |->
              IF p = 0 THEN NewPromise("Catch")
              ELSE IF p = 1 THEN NewPromise("NewPromise")
              ELSE Unused])
    /\ AgentsInit([o \in Obs |-> IF o = 1 THEN "Await" ELSE "none"])
    /\ AllIdle
    /\ chResult = <<>>
    /\ chErr = <<>>
    /\ closed = FALSE
    /\ handlers \in SUBSET {"onRejected"}
    /\ invoked = [h \in Handlers |-> 0]

\* select { case result := <-p.result: return result, nil
CatchRecvResult ==
    /\ kind[0] = "Catch"
    /\ prod[0] = "exec"
    /\ Len(result[1]) > 0
    /\ result' = [result EXCEPT ![1] = Tail(@)]
    /\ local' = [local EXCEPT ![0] = [result |-> Head(result[1]), err |-> Nil, r |-> Nil]]
    /\ prod' = [prod EXCEPT ![0] = "settle"]
    /\ UNCHANGED <<kind, snapshot, state, value, error, err, done, agentVars, allVars>>

\* Mutant of CatchRecvErr: the handler is called, but the error is returned
\* all the same.
CatchRecvErrKeepsErr ==
    /\ kind[0] = "Catch"
    /\ prod[0] = "exec"
    /\ Len(err[1]) > 0
    /\ err' = [err EXCEPT ![1] = Tail(@)]
    /\ invoked' = IF "onRejected" \in handlers
                  THEN [invoked EXCEPT !["onRejected"] = @ + 1]
                  ELSE invoked
    /\ local' = [local EXCEPT ![0] = [result |-> 0, err |-> Head(err[1]), r |-> Nil]]
    /\ prod' = [prod EXCEPT ![0] = "settle"]
    /\ UNCHANGED <<kind, snapshot, state, value, error, result, done, agentVars, results, errors, wg,
                   chResult, chErr, closed, handlers>>

\* select { case err := <-p.err: onRejected(err), nil if onRejected != nil,
\* else zero, err
CatchRecvErr ==
    /\ kind[0] = "Catch"
    /\ prod[0] = "exec"
    /\ Len(err[1]) > 0
    /\ err' = [err EXCEPT ![1] = Tail(@)]
    /\ IF "onRejected" \in handlers
       THEN /\ invoked' = [invoked EXCEPT !["onRejected"] = @ + 1]
            /\ local' = [local EXCEPT ![0] =
                           [result |-> OnRejected(Head(err[1])), err |-> Nil, r |-> Nil]]
       ELSE /\ invoked' = invoked
            /\ local' = [local EXCEPT ![0] = [result |-> 0, err |-> Head(err[1]), r |-> Nil]]
    /\ prod' = [prod EXCEPT ![0] = "settle"]
    /\ UNCHANGED <<kind, snapshot, state, value, error, result, done, agentVars, results, errors, wg,
                   chResult, chErr, closed, handlers>>

CatchStep ==
    \/ CatchRecvResult
    \/ CatchRecvErr

NextCatch ==
    \/ \E p \in Promises, v \in Values, e \in Errors \cup {Nil} : ExecutorReturns(p, v, e)
    \/ \E p \in Promises, r \in Payloads : ExecutorPanics(p, r)
    \/ \E p \in Promises : ProducerStep(p)
    \/ \E o \in Obs : Call(o)
    \/ \E a \in Agents : AwaitStep(a)
    \/ CatchStep

SpecCatch == InitCatch /\ [][NextCatch]_vars

FairSpecCatch ==
    /\ SpecCatch
    /\ \A p \in Promises : WF_vars(ProducerStep(p))
    /\ \A a \in Agents : WF_vars(AwaitStep(a))
    /\ WF_vars(CatchStep)

\* -------------------------------------------------------------- Finally
\* Finally(p, onFinally) with the handler given or nil, and one observer that
\* calls Await on the promise of Finally; input 1 is p, and the Await the
\* executor makes on p is the call of Watcher(1).
InitFinally ==
    /\ Made([p \in Promises |->
              IF p = 0 THEN NewPromise("Finally")
              ELSE IF p = 1 THEN NewPromise("NewPromise")
              ELSE Unused])
    /\ AgentsInit([o \in Obs |-> IF o = 1 THEN "Await" ELSE "none"])
    /\ AllIdle
    /\ chResult = <<>>
    /\ chErr = <<>>
    /\ closed = FALSE
    /\ handlers \in SUBSET {"onFinally"}
    /\ invoked = [h \in Handlers |-> 0]

\* The executor registers the deferred function and calls p.Await().
FinallyAwait ==
    /\ kind[0] = "Finally"
    /\ prod[0] = "exec"
    /\ prod' = [prod EXCEPT ![0] = "await"]
    /\ plan' = [plan EXCEPT ![Watcher(1)] = "Await"]
    /\ pc' = [pc EXCEPT ![Watcher(1)] = "recv"]
    /\ UNCHANGED <<kind, snapshot, promiseVars, local, target, ret, calls, timer, ctx, allVars>>

\* Mutant of FinallyReturn: onFinally is called only when p.Await() returned
\* no error.
FinallyReturnSkipsOnError ==
    /\ kind[0] = "Finally"
    /\ prod[0] = "await"
    /\ pc[Watcher(1)] = "returned"
    /\ invoked' = IF "onFinally" \in handlers /\ ret[Watcher(1)].err = Nil
                  THEN [invoked EXCEPT !["onFinally"] = @ + 1]
                  ELSE invoked
    /\ local' = [local EXCEPT ![0] =
                   [result |-> ret[Watcher(1)].value, err |-> ret[Watcher(1)].err, r |-> Nil]]
    /\ prod' = [prod EXCEPT ![0] = "settle"]
    /\ pc' = [pc EXCEPT ![Watcher(1)] = "exit"]
    /\ UNCHANGED <<kind, snapshot, promiseVars, plan, target, ret, calls, timer, ctx, results,
                   errors, wg, chResult, chErr, closed, handlers>>

\* return p.Await(): the results of Await are the results of the executor;
\* the deferred function calls onFinally if it is not nil; the executor
\* returns to the producer.
FinallyReturn ==
    /\ kind[0] = "Finally"
    /\ prod[0] = "await"
    /\ pc[Watcher(1)] = "returned"
    /\ invoked' = IF "onFinally" \in handlers
                  THEN [invoked EXCEPT !["onFinally"] = @ + 1]
                  ELSE invoked
    /\ local' = [local EXCEPT ![0] =
                   [result |-> ret[Watcher(1)].value, err |-> ret[Watcher(1)].err, r |-> Nil]]
    /\ prod' = [prod EXCEPT ![0] = "settle"]
    /\ pc' = [pc EXCEPT ![Watcher(1)] = "exit"]
    /\ UNCHANGED <<kind, snapshot, promiseVars, plan, target, ret, calls, timer, ctx, results,
                   errors, wg, chResult, chErr, closed, handlers>>

FinallyStep ==
    \/ FinallyAwait
    \/ FinallyReturn

NextFinally ==
    \/ \E p \in Promises, v \in Values, e \in Errors \cup {Nil} : ExecutorReturns(p, v, e)
    \/ \E p \in Promises, r \in Payloads : ExecutorPanics(p, r)
    \/ \E p \in Promises : ProducerStep(p)
    \/ \E o \in Obs : Call(o)
    \/ \E a \in Agents : AwaitStep(a)
    \/ FinallyStep

SpecFinally == InitFinally /\ [][NextFinally]_vars

FairSpecFinally ==
    /\ SpecFinally
    /\ \A p \in Promises : WF_vars(ProducerStep(p))
    /\ \A a \in Agents : WF_vars(AwaitStep(a))
    /\ WF_vars(FinallyStep)

\* ---------------------------------------------------------- ThenPromise
\* ThenPromise(p, onFulfilled) with the handler given or nil, and one
\* observer that calls Await on the promise of ThenPromise; input 1 is p,
\* input 2 will be the promise onFulfilled returns.  The two Awaits of the
\* executor are the calls of Watcher(1) and Watcher(2).
InitThenPromise ==
    /\ Made([p \in Promises |->
              IF p = 0 THEN NewPromise("ThenPromise")
              ELSE IF p = 1 THEN NewPromise("NewPromise")
              ELSE Unused])
    /\ AgentsInit([o \in Obs |-> IF o = 1 THEN "Await" ELSE "none"])
    /\ AllIdle
    /\ chResult = <<>>
    /\ chErr = <<>>
    /\ closed = FALSE
    /\ handlers \in SUBSET {"onFulfilled"}
    /\ invoked = [h \in Handlers |-> 0]

\* result, err := p.Await(): the call
ThenPromiseAwait ==
    /\ kind[0] = "ThenPromise"
    /\ prod[0] = "exec"
    /\ prod' = [prod EXCEPT ![0] = "await"]
    /\ plan' = [plan EXCEPT ![Watcher(1)] = "Await"]
    /\ pc' = [pc EXCEPT ![Watcher(1)] = "recv"]
    /\ UNCHANGED <<kind, snapshot, promiseVars, local, target, ret, calls, timer, ctx, allVars>>

\* Mutant of ThenPromiseReturn: with a nil onFulfilled the value of p is
\* passed on.
ThenPromiseReturnKeepsValue ==
    /\ kind[0] = "ThenPromise"
    /\ prod[0] = "await"
    /\ pc[Watcher(1)] = "returned"
    /\ ret[Watcher(1)].err # Nil \/ "onFulfilled" \notin handlers
    /\ local' = [local EXCEPT ![0] = [result |-> ret[Watcher(1)].value,
                                      err |-> ret[Watcher(1)].err, r |-> Nil]]
    /\ prod' = [prod EXCEPT ![0] = "settle"]
    /\ pc' = [pc EXCEPT ![Watcher(1)] = "exit"]
    /\ UNCHANGED <<kind, snapshot, promiseVars, plan, target, ret, calls, timer, ctx, allVars>>

\* if err != nil { return zero, err }; and with a nil onFulfilled:
\* return zero, nil
ThenPromiseReturn ==
    /\ kind[0] = "ThenPromise"
    /\ prod[0] = "await"
    /\ pc[Watcher(1)] = "returned"
    /\ ret[Watcher(1)].err # Nil \/ "onFulfilled" \notin handlers
    /\ local' = [local EXCEPT ![0] = [result |-> 0, err |-> ret[Watcher(1)].err, r |-> Nil]]
    /\ prod' = [prod EXCEPT ![0] = "settle"]
    /\ pc' = [pc EXCEPT ![Watcher(1)] = "exit"]
    /\ UNCHANGED <<kind, snapshot, promiseVars, plan, target, ret, calls, timer, ctx, allVars>>

\* Mutant of ThenPromiseNext: the handler is called whatever p.Await()
\* returned.
ThenPromiseNextAlways ==
    /\ kind[0] = "ThenPromise"
    /\ prod[0] = "await"
    /\ pc[Watcher(1)] = "returned"
    /\ "onFulfilled" \in handlers
    /\ invoked' = [invoked EXCEPT !["onFulfilled"] = @ + 1]
    /\ kind' = [kind EXCEPT ![2] = "NewPromise"]
    /\ prod' = [prod EXCEPT ![0] = "awaitnext", ![2] = "exec"]
    /\ plan' = [plan EXCEPT ![Watcher(2)] = "Await"]
    /\ pc' = [pc EXCEPT ![Watcher(1)] = "exit", ![Watcher(2)] = "recv"]
    /\ UNCHANGED <<snapshot, promiseVars, local, target, ret, calls, timer, ctx, results, errors,
                   wg, chResult, chErr, closed, handlers>>

\* nextPromise := onFulfilled(result); return nextPromise.Await(): the
\* handler makes a promise (promise 2, of any executor) and the executor calls
\* Await on it.
ThenPromiseNext ==
    /\ kind[0] = "ThenPromise"
    /\ prod[0] = "await"
    /\ pc[Watcher(1)] = "returned"
    /\ ret[Watcher(1)].err = Nil
    /\ "onFulfilled" \in handlers
    /\ invoked' = [invoked EXCEPT !["onFulfilled"] = @ + 1]
    /\ kind' = [kind EXCEPT ![2] = "NewPromise"]
    /\ prod' = [prod EXCEPT ![0] = "awaitnext", ![2] = "exec"]
    /\ plan' = [plan EXCEPT ![Watcher(2)] = "Await"]
    /\ pc' = [pc EXCEPT ![Watcher(1)] = "exit", ![Watcher(2)] = "recv"]
    /\ UNCHANGED <<snapshot, promiseVars, local, target, ret, calls, timer, ctx, results, errors,
                   wg, chResult, chErr, closed, handlers>>

\* nextPromise.Await() returns, and the executor returns its results.
ThenPromiseNextReturn ==
    /\ kind[0] = "ThenPromise"
    /\ prod[0] = "awaitnext"
    /\ pc[Watcher(2)] = "returned"
    /\ local' = [local EXCEPT ![0] =
                   [result |-> ret[Watcher(2)].value, err |-> ret[Watcher(2)].err, r |-> Nil]]
    /\ prod' = [prod EXCEPT ![0] = "settle"]
    /\ pc' = [pc EXCEPT ![Watcher(2)] = "exit"]
    /\ UNCHANGED <<kind, snapshot, promiseVars, plan, target, ret, calls, timer, ctx, allVars>>

ThenPromiseStep ==
    \/ ThenPromiseAwait
    \/ ThenPromiseReturn
    \/ ThenPromiseNext
    \/ ThenPromiseNextReturn

NextThenPromise ==
    \/ \E p \in Promises, v \in Values, e \in Errors \cup {Nil} : ExecutorReturns(p, v, e)
    \/ \E p \in Promises, r \in Payloads : ExecutorPanics(p, r)
    \/ \E p \in Promises : ProducerStep(p)
    \/ \E o \in Obs : Call(o)
    \/ \E a \in Agents : AwaitStep(a)
    \/ ThenPromiseStep

SpecThenPromise == InitThenPromise /\ [][NextThenPromise]_vars

FairSpecThenPromise ==
    /\ SpecThenPromise
    /\ \A p \in Promises : WF_vars(ProducerStep(p))
    /\ \A a \in Agents : WF_vars(AwaitStep(a))
    /\ WF_vars(ThenPromiseStep)

\* ------------------------------------------- an input with two consumers
\* All(f1..fn) as before, and besides it a goroutine of the caller that calls
\* f1.Await() itself: observer 1 waits on the promise of All, observer 2 on
\* input 1.
InitAllShared ==
    /\ Made([p \in Promises |-> IF p = 0 THEN NewPromise("All") ELSE NewPromise("NewPromise")])
    /\ plan = [a \in Agents |-> IF a \in {1, 2} THEN "Await" ELSE "none"]
    /\ target = [a \in Agents |-> IF a = 2 THEN 1 ELSE IF a \in Obs THEN 0 ELSE a - NumObs]
    /\ pc = [a \in Agents |-> "idle"]
    /\ ret = [a \in Agents |-> [value |-> IF a \in Obs \ {2} THEN <<>> ELSE 0, err |-> Nil]]
    /\ calls = [a \in Agents |-> 0]
    /\ timer = [a \in Agents |-> FALSE]
    /\ ctx = [a \in Agents |-> Nil]
    /\ snapshot = NoSnapshot
    /\ AllIdle
    /\ CombIdle

SpecAllShared == InitAllShared /\ [][NextAll]_vars

FairSpecAllShared == SpecAllShared /\ FairnessAll

\* Timeout(promise, duration) as before, and besides it a goroutine of the
\* caller that calls promise.Await() itself: observer 1 waits on the promise
\* of Timeout, observer 2 on input 1.
InitTimeoutShared ==
    /\ Made([p \in Promises |->
              IF p = 0 THEN NewPromise("Race")
              ELSE IF p = 1 THEN NewPromise("NewPromise")
              ELSE IF p = 2 THEN NewPromise("Timer")
              ELSE Unused])
    /\ plan = [a \in Agents |-> IF a \in {1, 2} THEN "Await" ELSE "none"]
    /\ target = [a \in Agents |-> IF a = 2 THEN 1 ELSE IF a \in Obs THEN 0 ELSE a - NumObs]
    /\ pc = [a \in Agents |-> "idle"]
    /\ ret = [a \in Agents |-> [value |-> 0, err |-> Nil]]
    /\ calls = [a \in Agents |-> 0]
    /\ timer = [a \in Agents |-> FALSE]
    /\ ctx = [a \in Agents |-> Nil]
    /\ snapshot = NoSnapshot
    /\ AllIdle
    /\ CombIdle

SpecTimeoutShared == InitTimeoutShared /\ [][NextTimeout]_vars

FairSpecTimeoutShared == SpecTimeoutShared /\ FairnessTimeout

\* The four snapshot reads of Promise.
SnapshotOps == {"GetState", "IsPending", "IsFulfilled", "IsRejected"}

\* What the read m returns on promise p.
SnapshotOut(p, m) ==
    CASE m = "GetState" -> GetState(p)
      [] m = "IsPending" -> IsPending(p)
      [] m = "IsFulfilled" -> IsFulfilled(p)
      [] m = "IsRejected" -> IsRejected(p)

\* Mutant of Snapshot: the read also takes the notification that waits on done.
SnapshotTakesDone(p, m) ==
    /\ kind[p] # "unused"
    /\ snapshot' = [op |-> m, out |-> SnapshotOut(p, m)]
    /\ done' = [done EXCEPT ![p] = <<>>]
    /\ UNCHANGED <<kind, state, value, error, result, err, prodVars, agentVars, allVars>>

\* A goroutine of the caller calls the read m on p and keeps what it returns.
\* The read holds p.mu.RLock() for the one load of p.state; the writers hold
\* p.mu.Lock() only for the assignments of one settlement, so the read lock
\* is always granted.
Snapshot(p, m) ==
    /\ kind[p] # "unused"
    /\ snapshot' = [op |-> m, out |-> SnapshotOut(p, m)]
    /\ UNCHANGED <<kind, promiseVars, prodVars, agentVars, allVars>>

\* One promise with its observers as in Spec, and a caller that reads its
\* state whenever it likes.
NextSnapshot ==
    \/ Next
    \/ \E m \in SnapshotOps : Snapshot(0, m)

SpecSnapshot == Init /\ [][NextSnapshot]_vars

\* ------------------------------------------------------ handler panics
\* Then, Catch or Finally with handlers that may panic.  The handler runs
\* inside the executor of the promise the combinator makes, so its panic
\* unwinds the executor and reaches the deferred function of NewPromise.
InitHandlerPanic ==
    /\ \E k \in {"Then", "Catch", "Finally"} :
          /\ Made([p \in Promises |->
                    IF p = 0 THEN NewPromise(k)
                    ELSE IF p = 1 THEN NewPromise("NewPromise")
                    ELSE Unused])
          /\ handlers \in SUBSET (CASE k = "Then" -> {"onFulfilled", "onRejected"}
                                     [] k = "Catch" -> {"onRejected"}
                                     [] k = "Finally" -> {"onFinally"})
    /\ AgentsInit([o \in Obs |-> IF o = 1 THEN "Await" ELSE "none"])
    /\ AllIdle
    /\ chResult = <<>>
    /\ chErr = <<>>
    /\ closed = FALSE
    /\ invoked = [h \in Handlers |-> 0]

\* Then: case result := <-p.result: onFulfilled(result) panics with payload r.
ThenOnFulfilledPanics(r) ==
    /\ kind[0] = "Then"
    /\ prod[0] = "exec"
    /\ Len(result[1]) > 0
    /\ "onFulfilled" \in handlers
    /\ result' = [result EXCEPT ![1] = Tail(@)]
    /\ invoked' = [invoked EXCEPT !["onFulfilled"] = @ + 1]
    /\ local' = [local EXCEPT ![0] = [result |-> 0, err |-> Nil, r |-> r]]
    /\ prod' = [prod EXCEPT ![0] = "recover"]
    /\ UNCHANGED <<kind, snapshot, state, value, error, err, done, agentVars, results, errors, wg,
                   chResult, chErr, closed, handlers>>

\* Then: case err := <-p.err: onRejected(err) panics with payload r.
ThenOnRejectedPanics(r) ==
    /\ kind[0] = "Then"
    /\ prod[0] = "exec"
    /\ Len(err[1]) > 0
    /\ "onRejected" \in handlers
    /\ err' = [err EXCEPT ![1] = Tail(@)]
    /\ invoked' = [invoked EXCEPT !["onRejected"] = @ + 1]
    /\ local' = [local EXCEPT ![0] = [result |-> 0, err |-> Nil, r |-> r]]
    /\ prod' = [prod EXCEPT ![0] = "recover"]
    /\ UNCHANGED <<kind, snapshot, state, value, error, result, done, agentVars, results, errors, wg,
                   chResult, chErr, closed, handlers>>

\* Catch: case err := <-p.err: onRejected(err) panics with payload r.
CatchOnRejectedPanics(r) ==
    /\ kind[0] = "Catch"
    /\ prod[0] = "exec"
    /\ Len(err[1]) > 0
    /\ "onRejected" \in handlers
    /\ err' = [err EXCEPT ![1] = Tail(@)]
    /\ invoked' = [invoked EXCEPT !["onRejected"] = @ + 1]
    /\ local' = [local EXCEPT ![0] = [result |-> 0, err |-> Nil, r |-> r]]
    /\ prod' = [prod EXCEPT ![0] = "recover"]
    /\ UNCHANGED <<kind, snapshot, state, value, error, result, done, agentVars, results, errors, wg,
                   chResult, chErr, closed, handlers>>

\* Mutant of FinallyOnFinallyPanics: a panic raised inside a deferred function
\* is not seen by the recover of the producer, and the goroutine ends there.
FinallyOnFinallyEscapes(r) ==
    /\ kind[0] = "Finally"
    /\ prod[0] = "await"
    /\ pc[Watcher(1)] = "returned"
    /\ "onFinally" \in handlers
    /\ invoked' = [invoked EXCEPT !["onFinally"] = @ + 1]
    /\ local' = [local EXCEPT ![0] = [result |-> 0, err |-> Nil, r |-> r]]
    /\ prod' = [prod EXCEPT ![0] = "finished"]
    /\ pc' = [pc EXCEPT ![Watcher(1)] = "exit"]
    /\ UNCHANGED <<kind, snapshot, promiseVars, plan, target, ret, calls, timer, ctx, results,
                   errors, wg, chResult, chErr, closed, handlers>>

\* Finally: p.Await() has returned and the deferred function calls
\* onFinally, which panics with payload r: the panic leaves the executor in
\* place of its results.
FinallyOnFinallyPanics(r) ==
    /\ kind[0] = "Finally"
    /\ prod[0] = "await"
    /\ pc[Watcher(1)] = "returned"
    /\ "onFinally" \in handlers
    /\ invoked' = [invoked EXCEPT !["onFinally"] = @ + 1]
    /\ local' = [local EXCEPT ![0] = [result |-> 0, err |-> Nil, r |-> r]]
    /\ prod' = [prod EXCEPT ![0] = "recover"]
    /\ pc' = [pc EXCEPT ![Watcher(1)] = "exit"]
    /\ UNCHANGED <<kind, snapshot, promiseVars, plan, target, ret, calls, timer, ctx, results,
                   errors, wg, chResult, chErr, closed, handlers>>

\* A handler either returns (ThenStep, CatchStep, FinallyStep) or panics.
NextHandlerPanic ==
    \/ \E p \in Promises, v \in Values, e \in Errors \cup {Nil} : ExecutorReturns(p, v, e)
    \/ \E p \in Promises, r \in Payloads : ExecutorPanics(p, r)
    \/ \E p \in Promises : ProducerStep(p)
    \/ \E o \in Obs : Call(o)
    \/ \E a \in Agents : AwaitStep(a)
    \/ ThenStep
    \/ CatchStep
    \/ FinallyStep
    \/ \E r \in Payloads : ThenOnFulfilledPanics(r)
    \/ \E r \in Payloads : ThenOnRejectedPanics(r)
    \/ \E r \in Payloads : CatchOnRejectedPanics(r)
    \/ \E r \in Payloads : FinallyOnFinallyPanics(r)

\* The goroutines go on; an executor that has its input goes on to call the
\* handler, which returns or panics.
FairSpecHandlerPanic ==
    /\ InitHandlerPanic
    /\ [][NextHandlerPanic]_vars
    /\ \A p \in Promises : WF_vars(ProducerStep(p))
    /\ \A a \in Agents : WF_vars(AwaitStep(a))
    /\ WF_vars(\/ ThenStep
               \/ CatchStep
               \/ FinallyStep
               \/ \E r \in Payloads : \/ ThenOnFulfilledPanics(r)
                                        \/ ThenOnRejectedPanics(r)
                                        \/ CatchOnRejectedPanics(r)
                                        \/ FinallyOnFinallyPanics(r))

\* ---------------------------------------------------------- Race or Any
\* Race(f1..fn) or Any(f1..fn) by itself: the goroutines the combinator
\* starts and the producers of its inputs; nobody waits on its promise.
InitRaceOrAny ==
    /\ \/ /\ Made([p \in Promises |->
                    IF p = 0 THEN NewPromise("Race") ELSE NewPromise("NewPromise")])
          /\ AllIdle
       \/ /\ Made([p \in Promises |->
                    IF p = 0 THEN NewPromise("Any") ELSE NewPromise("NewPromise")])
          /\ AnyIdle
    /\ AgentsInit([o \in Obs |-> "none"])
    /\ CombIdle

NextRaceOrAny ==
    \/ \E p \in Promises, v \in Values, e \in Errors \cup {Nil} : ExecutorReturns(p, v, e)
    \/ \E p \in Promises, r \in Payloads : ExecutorPanics(p, r)
    \/ \E p \in Promises : ProducerStep(p)
    \/ \E a \in Agents : AwaitStep(a)
    \/ RaceStep
    \/ AnyStep

\* The goroutines go on; the executor of an input may run for ever.
FairSpecRaceOrAny ==
    /\ InitRaceOrAny
    /\ [][NextRaceOrAny]_vars
    /\ \A p \in Promises : WF_vars(ProducerStep(p))
    /\ \A a \in Agents : WF_vars(AwaitStep(a))
    /\ WF_vars(RaceStep)
    /\ WF_vars(AnyStep)

\* ------------------------------------------------- any number of inputs
\* Race(f1..fn) for n from 0 to NumInputs, with one observer that calls Await
\* on it.
InitRaceGiven ==
    /\ \E n \in 0..NumInputs :
          Made([p \in Promises |->
                  IF p = 0 THEN NewPromise("Race")
                  ELSE IF p <= n THEN NewPromise("NewPromise")
                  ELSE Unused])
    /\ AgentsInit([o \in Obs |-> IF o = 1 THEN "Await" ELSE "none"])
    /\ AllIdle
    /\ CombIdle

SpecRaceGiven == InitRaceGiven /\ [][NextRace]_vars

\* All(f1..fn), AllSettled(f1..fn) or Any(f1..fn) for n from 0 to MaxGiven,
\* with one observer that calls Await on it.
InitGiven ==
    /\ \E k \in {"All", "AllSettled", "Any"}, n \in 0..MaxGiven :
          /\ Made([p \in Promises |->
                    IF p = 0 THEN NewPromise(k)
                    ELSE IF p <= n THEN NewPromise("NewPromise")
                    ELSE Unused])
          /\ CASE k = "All" -> AllIdle
               [] k = "AllSettled" -> AllSettledIdle
               [] k = "Any" -> AnyIdle
    /\ AgentsInit([o \in Obs |-> IF o = 1 THEN "Await" ELSE "none"])
    /\ CombIdle

NextGiven ==
    \/ \E p \in Promises, v \in Values, e \in Errors \cup {Nil} : ExecutorReturns(p, v, e)
    \/ \E p \in Promises, r \in Payloads : ExecutorPanics(p, r)
    \/ \E p \in Promises : ProducerStep(p)
    \/ \E o \in Obs : Call(o)
    \/ \E a \in Agents : AwaitStep(a)
    \/ AllStep
    \/ AllSettledStep
    \/ AnyStep

\* The goroutines go on; the executor of an input may run for ever.
FairSpecGiven ==
    /\ InitGiven
    /\ [][NextGiven]_vars
    /\ \A p \in Promises : WF_vars(ProducerStep(p))
    /\ \A a \in Agents : WF_vars(AwaitStep(a))
    /\ WF_vars(AllStep \/ AllSettledStep \/ AnyStep)

\* ------------------------------------------------- Then or ThenPromise
\* Then(p, onFulfilled, onRejected) or ThenPromise(p, onFulfilled), each
\* handler given or nil, with one observer that calls Await on the promise.
InitThenOrThenPromise ==
    /\ \/ /\ Made([p \in Promises |->
                    IF p = 0 THEN NewPromise("Then")
                    ELSE IF p = 1 THEN NewPromise("NewPromise")
                    ELSE Unused])
          /\ handlers \in SUBSET {"onFulfilled", "onRejected"}
       \/ /\ Made([p \in Promises |->
                    IF p = 0 THEN NewPromise("ThenPromise")
                    ELSE IF p = 1 THEN NewPromise("NewPromise")
                    ELSE Unused])
          /\ handlers \in SUBSET {"onFulfilled"}
    /\ AgentsInit([o \in Obs |-> IF o = 1 THEN "Await" ELSE "none"])
    /\ AllIdle
    /\ chResult = <<>>
    /\ chErr = <<>>
    /\ closed = FALSE
    /\ invoked = [h \in Handlers |-> 0]

NextThenOrThenPromise ==
    \/ \E p \in Promises, v \in Values, e \in Errors \cup {Nil} : ExecutorReturns(p, v, e)
    \/ \E p \in Promises, r \in Payloads : ExecutorPanics(p, r)
    \/ \E p \in Promises : ProducerStep(p)
    \/ \E o \in Obs : Call(o)
    \/ \E a \in Agents : AwaitStep(a)
    \/ ThenStep
    \/ ThenPromiseStep

FairSpecThenOrThenPromise ==
    /\ InitThenOrThenPromise
    /\ [][NextThenOrThenPromise]_vars
    /\ \A p \in Promises : WF_vars(ProducerStep(p))
    /\ \A a \in Agents : WF_vars(AwaitStep(a))
    /\ WF_vars(ThenStep \/ ThenPromiseStep)

\* ================================================================ claims
\* What the executor of promise p produced, as a pair (value, error).
Produced(p) ==
    IF local[p].r # Nil THEN [value |-> Zero(p), err |-> PanicError(local[p].r)]
    ELSE IF local[p].err # Nil THEN [value |-> Zero(p), err |-> local[p].err]
    ELSE [value |-> local[p].result, err |-> Nil]

\* The pair a settled promise holds.
Held(p) ==
    IF state[p] = Fulfilled THEN [value |-> value[p], err |-> Nil]
    ELSE [value |-> Zero(p), err |-> error[p]]

\* Observer o is the only one that waits at all.
Alone(o) == \A o2 \in Obs \ {o} : plan[o2] = "none"

\* Observer o has made all its calls and each was abandoned (timed out or
\* cancelled): a bounded wait returns no other way once it has made them.
Abandoned(o) ==
    /\ plan[o] \in {"AwaitWithTimeout", "AwaitWithContext"}
    /\ CallsMade(NumObs) = MaxCalls
    /\ pc[o] = "returned"
    /\ ret[o].err \in {TimeoutError} \cup CtxErrs

\* C1 (as claimed): when the producer fulfils the promise with v, every one
\* of the observers that called Await, before or after settlement, eventually
\* returns (v, nil); none of them blocks for ever.
C1_AllObserversReturn ==
    \A o \in Obs :
        ( /\ \A o2 \in Obs : plan[o2] = "Await"
          /\ kind[0] = "NewPromise" /\ state[0] = Fulfilled
          /\ pc[o] = "recv" /\ calls[o] = 1 )
        ~> (pc[o] = "returned" /\ ret[o] = [value |-> value[0], err |-> Nil])

\* C2 (as claimed): once an Await on a settled promise has returned, every
\* later Await, by the same or another observer, returns as well, with the
\* same pair.
AwaitHasReturned(o) ==
    plan[o] = "Await" /\ (pc[o] = "returned" \/ calls[o] >= 2)

C2_AwaitRepeatable ==
    \A o1, o2 \in Obs :
        ( /\ AwaitHasReturned(o1)
          /\ plan[o2] = "Await" /\ pc[o2] = "recv"
          /\ (o1 = o2 => calls[o2] >= 2) )
        ~> (pc[o2] = "returned" /\ ret[o2] = ret[o1] /\ ret[o2] = Held(0))

\* C3: a promise that has left Pending never changes its state, value or
\* error again, and every Await that returned reports the pair it holds.
C3_SettleOnce ==
    /\ [][\A p \in Promises :
            state[p] # Pending =>
                state'[p] = state[p] /\ value'[p] = value[p] /\ error'[p] = error[p]]_vars
    /\ [](\A a \in Agents :
            (pc[a] = "returned" /\ plan[a] = "Await") => ret[a] = Held(target[a]))

C3_Witness ==
    /\ kind[0] = "NewPromise" /\ prod[0] = "finished" /\ state[0] = Rejected
    /\ \E o \in Obs : pc[o] = "returned" /\ plan[o] = "Await" /\ ret[o].err = error[0]

\* C4: when the executor panics, the producer goes on: the promise becomes
\* Rejected with the non-nil error "panic: <payload>", and the Await of an
\* observer that waits alone eventually returns that error.
C4_FaultContainment ==
    /\ [](\A p \in Promises :
            (local[p].r # Nil /\ prod[p] # "recover") =>
                /\ state[p] = Rejected
                /\ error[p] = PanicError(local[p].r)
                /\ error[p] # Nil)
    /\ (prod[0] = "recover") ~> (prod[0] = "finished" /\ done[0] # <<>>)
    /\ \A o \in Obs :
            (local[0].r # Nil /\ Alone(o) /\ plan[o] = "Await" /\ pc[o] = "recv" /\ calls[o] = 1)
            ~> (pc[o] = "returned" /\ ret[o] = [value |-> 0, err |-> PanicError(local[0].r)])

C4_Witness ==
    \E o \in Obs :
        /\ local[0].r = "boom" /\ prod[0] = "finished"
        /\ Alone(o) /\ plan[o] = "Await" /\ pc[o] = "returned"
        /\ ret[o] = [value |-> 0, err |-> "panic: boom"]

\* C5: once the executor has returned (v, err) and the producer has settled,
\* the promise is Rejected with err if err is non-nil and Fulfilled with v if
\* err is nil, and the Await that returns gives (zero, err), respectively
\* (v, nil).
C5_NormalOutcome ==
    \A p \in Promises :
        (kind[p] = "NewPromise" /\ prod[p] \in {"send", "notify", "finished"} /\ local[p].r = Nil) =>
            /\ IF local[p].err # Nil
               THEN state[p] = Rejected /\ error[p] = local[p].err
               ELSE state[p] = Fulfilled /\ value[p] = local[p].result /\ error[p] = Nil
            /\ \A a \in Agents :
                (target[a] = p /\ plan[a] = "Await" /\ pc[a] = "returned") =>
                    ret[a] = IF local[p].err # Nil
                             THEN [value |-> 0, err |-> local[p].err]
                             ELSE [value |-> local[p].result, err |-> Nil]

C5_Witness ==
    \E o \in Obs :
        /\ kind[0] = "NewPromise" /\ prod[0] = "finished"
        /\ local[0] = [result |-> 1, err |-> Nil, r |-> Nil]
        /\ plan[o] = "Await" /\ pc[o] = "returned" /\ ret[o] = [value |-> 1, err |-> Nil]

\* C6 (as claimed): an AwaitWithTimeout whose select received the completion
\* before the duration elapsed eventually returns what the promise holds.
C6_TimeoutWaitReturns ==
    \A o \in Obs :
        (plan[o] = "AwaitWithTimeout" /\ pc[o] = "recv" /\ ~timer[o])
        ~> (pc[o] = "returned" /\ ret[o] = Held(0))

\* C7: an AwaitWithTimeout that returns while the promise is Pending returns
\* the timeout error and leaves it Pending; and when the promise is then
\* fulfilled, the plain Await of another observer returns its value with a
\* nil error.
C7_TimeoutIndependence ==
    /\ [][\A o \in Obs :
            ( /\ plan[o] = "AwaitWithTimeout" /\ pc[o] = "select"
              /\ state[target[o]] = Pending /\ pc'[o] = "returned" ) =>
                /\ ret'[o] = [value |-> 0, err |-> TimeoutError]
                /\ state'[target[o]] = Pending]_vars
    /\ \A o2 \in Obs :
            ( /\ \E o1 \in Obs \ {o2} : plan[o1] = "AwaitWithTimeout"
              /\ \A o \in Obs \ {o2} : Abandoned(o)
              /\ plan[o2] = "Await" /\ pc[o2] = "recv" /\ calls[o2] = 1
              /\ kind[0] = "NewPromise" /\ state[0] = Fulfilled )
            ~> (pc[o2] = "returned" /\ ret[o2] = [value |-> Produced(0).value, err |-> Nil])

\* The bounded wait of o1 has timed out, the promise is still Pending with
\* its executor running, and o2 stands in its plain Await.
C7_Witness ==
    \E o1, o2 \in Obs :
        /\ o1 # o2 /\ plan[o1] = "AwaitWithTimeout" /\ Abandoned(o1)
        /\ ret[o1] = [value |-> 0, err |-> TimeoutError]
        /\ kind[0] = "NewPromise" /\ state[0] = Pending /\ prod[0] = "exec"
        /\ plan[o2] = "Await" /\ pc[o2] = "recv" /\ calls[o2] = 1

\* C8 (as claimed): an AwaitWithContext whose select received the completion
\* before the context was cancelled eventually returns what the promise
\* holds.
C8_ContextWaitReturns ==
    \A o \in Obs :
        (plan[o] = "AwaitWithContext" /\ pc[o] = "recv" /\ ctx[o] = Nil)
        ~> (pc[o] = "returned" /\ ret[o] = Held(0))

\* C9: the step by which a bounded wait is abandoned (timeout or
\* cancellation) changes nothing of the promise, its channels or its
\* producer.
C9_AbandonedWaitIsLocal ==
    [][\A o \in Obs :
          (pc[o] = "select" /\ pc'[o] = "returned") =>
              /\ ret'[o].err \in {TimeoutError} \cup CtxErrs
              /\ UNCHANGED <<promiseVars, prodVars>>]_vars

C9_Witness ==
    \E o1, o2 \in Obs :
        /\ Abandoned(o1)
        /\ kind[0] = "NewPromise" /\ prod[0] = "finished"
        /\ plan[o2] = "Await" /\ pc[o2] = "returned" /\ ret[o2] = Produced(0)

\* C10: All(f1..fn) fulfils once every input has fulfilled, whatever the
\* order in which they completed, and the value it then holds, and that an
\* Await on it returns, is the list of the inputs' values in input order.
C10_AllOrdered ==
    /\ [](state[0] = Fulfilled =>
            /\ \A i \in Inputs : state[i] = Fulfilled
            /\ value[0] = [i \in Inputs |-> value[i]])
    /\ [](\A o \in Obs :
            (pc[o] = "returned" /\ ret[o].err = Nil) =>
                ret[o].value = [i \in Inputs |-> value[i]])
    /\ (\A i \in Inputs : state[i] = Fulfilled) ~> (state[0] = Fulfilled)

\* All has fulfilled with the values of inputs that returned different
\* values, and the observer's Await has returned the list.
C10_Witness ==
    /\ state[0] = Fulfilled /\ value[0] = [i \in Inputs |-> IF i = 1 THEN 1 ELSE 0]
    /\ \A i \in Inputs : value[i] = IF i = 1 THEN 1 ELSE 0
    /\ pc[1] = "returned" /\ ret[1] = [value |-> value[0], err |-> Nil]

\* C11: All is fail-fast: once an input is Rejected, the promise of All
\* goes Rejected, whatever the other inputs do (they may stay Pending for ever).
C11_AllFailFast ==
    (\E i \in Inputs : state[i] = Rejected) ~> (state[0] = Rejected)

\* The record AllSettled owes for input i, once input i has settled.
SettledRecord(i) ==
    IF state[i] = Fulfilled
    THEN PromiseResult("fulfilled", value[i], Nil)
    ELSE PromiseResult("rejected", 0, error[i])

\* C12: AllSettled never rejects; when it is Fulfilled every input has
\* settled and its value has one record per input, in input order, with the
\* status and the value or reason of that input; and once all inputs have
\* settled it does fulfil, and the Await on it returns that list.
C12_AllSettledTotal ==
    /\ [](state[0] # Rejected)
    /\ [](state[0] = Fulfilled =>
            /\ DOMAIN value[0] = Inputs
            /\ \A i \in Inputs : state[i] # Pending /\ value[0][i] = SettledRecord(i))
    /\ [](\A o \in Obs : pc[o] = "returned" =>
            /\ ret[o].err = Nil
            /\ ret[o].value = [i \in Inputs |-> SettledRecord(i)])
    /\ (\A i \in Inputs : state[i] # Pending) ~> (state[0] = Fulfilled)

\* AllSettled(f1 fulfilled with 1, f2 rejected with e1, ...) is Fulfilled
\* with the records in that order and the observer has got them.
C12_Witness ==
    /\ kind[0] = "AllSettled"
    /\ state[0] = Fulfilled
    /\ value[0][1] = PromiseResult("fulfilled", 1, Nil)
    /\ value[0][2] = PromiseResult("rejected", 0, "e1")
    /\ pc[1] = "returned"
    /\ ret[1].value = value[0]

\* Input i has settled and every other input is still Pending.
OnlySettled(i) ==
    /\ state[i] # Pending
    /\ \A j \in Inputs \ {i} : state[j] = Pending

\* C13: Race settles with the outcome of the first input to settle: from a
\* state in which input i has settled and all the other inputs are Pending,
\* the promise of Race, whenever it is settled, holds the outcome of input i.
C13_RaceFirstWins ==
    \A i \in Inputs :
        [](OnlySettled(i) => [](state[0] # Pending => Held(0) = Held(i)))

\* C14: Any fulfils with the first fulfilment delivered: a Fulfilled Any
\* holds the value of a fulfilled input; the value that is first put in the
\* channel result stays there until the executor takes it as its result; and
\* once some input is Fulfilled, Any goes Fulfilled, whatever the other inputs
\* do (rejected before, or Pending for ever).
C14_AnyFirstFulfilled ==
    /\ [](state[0] = Fulfilled =>
            \E i \in Inputs : state[i] = Fulfilled /\ value[0] = value[i])
    /\ [][Len(chResult) > 0 =>
            \/ chResult' = chResult
            \/ /\ chResult' = <<>>
               /\ local'[0] = [result |-> Head(chResult), err |-> Nil, r |-> Nil]]_vars
    /\ (\E i \in Inputs : state[i] = Fulfilled) ~> (state[0] = Fulfilled)

\* Any(f1, f2) with f1 rejected and collected before f2 fulfilled with 1: Any is
\* Fulfilled with 1 and the observer has got it.
C14_Witness ==
    /\ kind[0] = "Any"
    /\ state[1] = Rejected
    /\ state[2] = Fulfilled
    /\ errors = <<error[1]>>
    /\ state[0] = Fulfilled
    /\ value[0] = 1
    /\ pc[1] = "returned"
    /\ ret[1] = [value |-> 1, err |-> Nil]

\* C15: Any is Rejected only when every input is Rejected, and its fault is
\* then made of the collected faults, which are the faults of the n inputs,
\* one entry per input, in the order the watchers stored them.
C15_AnyAggregate ==
    state[0] = Rejected =>
        /\ \A i \in Inputs : state[i] = Rejected
        /\ Len(errors) = NumInputs
        /\ \E f \in [1..NumInputs -> Inputs] :
              /\ \A k1, k2 \in 1..NumInputs : f[k1] = f[k2] => k1 = k2
              /\ errors = [k \in 1..NumInputs |-> error[f[k]]]
        /\ error[0] = AllRejectedError(errors)

\* Any(f1, f2) with f2 rejected with e2 before f1 with e1: the fault lists
\* both, in the order of collection, and the observer has got it.
C15_Witness ==
    /\ kind[0] = "Any"
    /\ state[0] = Rejected
    /\ error[1] = "e1"
    /\ error[2] = "e2"
    /\ error[0] = "all promises rejected: [e2 e1]"
    /\ pc[1] = "returned"
    /\ ret[1].err = error[0]

\* C16: Timeout(p, d) has the outcome of p when p settles before d has
\* elapsed (p is settled while the timer still sleeps), and is Rejected with
\* the timed-out fault when d elapses while p is Pending (the timer promise
\* is settled while the executor of p still runs).
C16_TimeoutOutcome ==
    /\ []((state[1] # Pending /\ prod[2] = "exec") =>
            [](state[0] # Pending => Held(0) = Held(1)))
    /\ []((state[2] # Pending /\ prod[1] = "exec") =>
            [](state[0] # Pending => Held(0) = [value |-> 0, err |-> TimedOutError]))

\* C17: Then(p, onFulfilled, onRejected): the promise of Then settles only
\* after p; if p fulfilled with v and onFulfilled was given it is Fulfilled
\* with onFulfilled(v); if p rejected with e it is Rejected with e when
\* onRejected is nil and Fulfilled with onRejected(e) when it was given.  Only
\* the handler of p's outcome is called, once, and once p has settled the
\* promise of Then settles.
C17_ThenDispatch ==
    /\ [](state[0] # Pending =>
            /\ state[1] # Pending
            /\ (state[1] = Fulfilled /\ "onFulfilled" \in handlers) =>
                   /\ Held(0) = [value |-> OnFulfilled(value[1]), err |-> Nil]
                   /\ invoked["onFulfilled"] = 1
            /\ (state[1] = Rejected /\ "onRejected" \notin handlers) =>
                   Held(0) = [value |-> 0, err |-> error[1]]
            /\ (state[1] = Rejected /\ "onRejected" \in handlers) =>
                   /\ Held(0) = [value |-> OnRejected(error[1]), err |-> Nil]
                   /\ invoked["onRejected"] = 1)
    /\ [](/\ invoked["onFulfilled"] + invoked["onRejected"] <= 1
          /\ invoked["onFulfilled"] = 1 => state[1] = Fulfilled
          /\ invoked["onRejected"] = 1 => state[1] = Rejected)
    /\ (state[1] # Pending) ~> (state[0] # Pending)

\* Then(p, f, g) with p rejected with e1: the promise is Fulfilled with
\* g(e1), g was called once and f never, and the observer has got the value.
C17_Witness ==
    /\ kind[0] = "Then"
    /\ handlers = {"onFulfilled", "onRejected"}
    /\ state[1] = Rejected
    /\ error[1] = "e1"
    /\ state[0] = Fulfilled
    /\ value[0] = OnRejected("e1")
    /\ invoked["onRejected"] = 1
    /\ invoked["onFulfilled"] = 0
    /\ ret[1] = [value |-> OnRejected("e1"), err |-> Nil]
    /\ pc[1] = "returned"

\* C18: Catch(p, onRejected): the promise of Catch settles only after p; if p
\* fulfilled with v it is Fulfilled with v and the handler was not called; if
\* p rejected with e it is Fulfilled with onRejected(e) when the handler was
\* given (called once) and Rejected with e when it is nil; and once p has
\* settled the promise of Catch settles.
C18_CatchDispatch ==
    /\ [](state[0] # Pending =>
            /\ state[1] # Pending
            /\ state[1] = Fulfilled =>
                   /\ Held(0) = [value |-> value[1], err |-> Nil]
                   /\ invoked["onRejected"] = 0
            /\ (state[1] = Rejected /\ "onRejected" \in handlers) =>
                   /\ Held(0) = [value |-> OnRejected(error[1]), err |-> Nil]
                   /\ invoked["onRejected"] = 1
            /\ (state[1] = Rejected /\ "onRejected" \notin handlers) =>
                   /\ Held(0) = [value |-> 0, err |-> error[1]]
                   /\ invoked["onRejected"] = 0)
    /\ (state[1] # Pending) ~> (state[0] # Pending)

\* Catch(p, g) with p rejected by a panic: the promise is Fulfilled with the
\* replacement value g(panic fault) and the observer has got it.
C18_Witness ==
    /\ kind[0] = "Catch"
    /\ handlers = {"onRejected"}
    /\ state[1] = Rejected
    /\ error[1] = PanicError("boom")
    /\ state[0] = Fulfilled
    /\ value[0] = OnRejected(PanicError("boom"))
    /\ invoked["onRejected"] = 1
    /\ pc[1] = "returned"
    /\ ret[1] = [value |-> OnRejected(PanicError("boom")), err |-> Nil]

\* C19: Finally(p, onFinally): a settled promise of Finally holds the outcome
\* of p (same value or same fault) and onFinally, when given, has then been
\* called once; every call of onFinally happens with p settled and leaves
\* the promise of Finally Pending; and once p has settled the promise of
\* Finally settles.
C19_FinallyPassThrough ==
    /\ [](state[0] # Pending =>
            /\ state[1] # Pending
            /\ Held(0) = Held(1)
            /\ "onFinally" \in handlers => invoked["onFinally"] = 1)
    /\ [][invoked'["onFinally"] # invoked["onFinally"] =>
            /\ invoked["onFinally"] = 0
            /\ invoked'["onFinally"] = 1
            /\ state[1] # Pending
            /\ state'[0] = Pending]_vars
    /\ (state[1] # Pending) ~> (state[0] # Pending)

\* Finally(p, h) with p rejected with e2: the promise is Rejected with e2, h
\* was called once, and the observer has got the fault.
C19_Witness ==
    /\ kind[0] = "Finally"
    /\ handlers = {"onFinally"}
    /\ state[1] = Rejected
    /\ error[1] = "e2"
    /\ state[0] = Rejected
    /\ error[0] = "e2"
    /\ invoked["onFinally"] = 1
    /\ pc[1] = "returned"
    /\ ret[1] = [value |-> 0, err |-> "e2"]

\* C20: ThenPromise(p, onFulfilled) with onFulfilled given: if p fulfilled,
\* the handler is called once and the promise of ThenPromise settles only
\* after the promise the handler returned (promise 2), with its outcome; if p
\* rejected with e, the handler is never called and the promise is Rejected
\* with e.  It settles once p has rejected, and once p has fulfilled and the
\* returned promise has settled.
C20_ThenPromiseChain ==
    /\ []("onFulfilled" \in handlers =>
            /\ invoked["onFulfilled"] <= 1
            /\ state[1] # Fulfilled => invoked["onFulfilled"] = 0
            /\ state[0] # Pending =>
                 /\ state[1] # Pending
                 /\ state[1] = Fulfilled =>
                        /\ invoked["onFulfilled"] = 1
                        /\ state[2] # Pending
                        /\ Held(0) = Held(2)
                 /\ state[1] = Rejected => Held(0) = [value |-> 0, err |-> error[1]])
    /\ ("onFulfilled" \in handlers /\ state[1] = Rejected) ~> (state[0] = Rejected)
    /\ ("onFulfilled" \in handlers /\ state[1] = Fulfilled /\ state[2] # Pending)
          ~> (state[0] # Pending)

\* ThenPromise(p, f) with p fulfilled with 0 and f returning a promise that
\* rejects with e1: the promise is Rejected with e1 and the observer has got
\* the fault.
C20_Witness ==
    /\ kind[0] = "ThenPromise"
    /\ handlers = {"onFulfilled"}
    /\ state[1] = Fulfilled
    /\ value[1] = 0
    /\ invoked["onFulfilled"] = 1
    /\ state[2] = Rejected
    /\ error[2] = "e1"
    /\ state[0] = Rejected
    /\ error[0] = "e1"
    /\ pc[1] = "returned"
    /\ ret[1] = [value |-> 0, err |-> "e1"]

\* C21: a promise of Resolve(v) is Fulfilled with v and a promise of
\* Reject(e) is Rejected with e from its construction on, with no producer
\* goroutine, and neither ever changes; a promise of NewPromise starts
\* Pending with its goroutine at the executor.  An Await on a literal
\* returns (v, nil), or (zero, e).
C21_LiteralsTerminal ==
    /\ \A v \in Values : Resolve(v).state = Fulfilled /\ Resolve(v).value = v
    /\ \A e \in Errors : Reject(e).state = Rejected /\ Reject(e).error = e
    /\ kind[0] = "Resolve" => state[0] = Fulfilled /\ error[0] = Nil /\ prod[0] = "none"
    /\ kind[0] = "Reject" => state[0] = Rejected /\ value[0] = 0 /\ prod[0] = "none"
    /\ kind[0] = "NewPromise" => state[0] = Pending /\ prod[0] = "exec"
    /\ [][kind[0] \in {"Resolve", "Reject"} =>
            /\ prod'[0] = "none"
            /\ state'[0] = state[0]
            /\ value'[0] = value[0]
            /\ error'[0] = error[0]]_vars
    /\ \A o \in Obs :
          (kind[0] \in {"Resolve", "Reject"} /\ plan[o] = "Await" /\ pc[o] = "recv")
          ~> (pc[o] = "returned" /\ ret[o] = Held(0))

\* C22: whenever GetState of a promise of NewPromise gives a terminal state,
\* or a message is on its done channel, the promise is settled and holds the
\* outcome of its producer; a wait that has returned the outcome returned the
\* pair the promise holds, and GetState is then terminal; and a terminal
\* state, its value and its error never change again.
C22_AtomicVisibility ==
    /\ [](\A p \in Promises :
            (kind[p] = "NewPromise" /\ (GetState(p) # Pending \/ Len(done[p]) > 0)) =>
                /\ GetState(p) \in {Fulfilled, Rejected}
                /\ Held(p) = Produced(p))
    /\ [](\A o \in Obs :
            (pc[o] = "returned" /\ ret[o].err \notin {TimeoutError} \cup CtxErrs) =>
                /\ GetState(0) \in {Fulfilled, Rejected}
                /\ ret[o] = Held(0))
    /\ [][\A p \in Promises :
            GetState(p) # Pending =>
                /\ state'[p] = state[p]
                /\ value'[p] = value[p]
                /\ error'[p] = error[p]]_vars

\* The producer has left its critical section and has not sent anything yet:
\* GetState gives Fulfilled and the value 1 is stored.
C22_Witness ==
    /\ kind[0] = "NewPromise"
    /\ prod[0] = "send"
    /\ GetState(0) = Fulfilled
    /\ value[0] = 1
    /\ done[0] = <<>>

\* C23: an input given to a combinator and also awaited directly serves
\* both: with f1 given to All and awaited by observer 2, the Await of
\* observer 2 returns the outcome of f1 once f1 has settled, and All settles
\* once all its inputs have settled.
C23_InputNotConsumed ==
    /\ (state[1] # Pending /\ pc[2] = "recv") ~> (pc[2] = "returned" /\ ret[2] = Held(1))
    /\ (\A i \in Inputs : state[i] # Pending) ~> (state[0] # Pending)

\* C24: a timed-out Timeout(p, d) leaves p alone: the producer of p, once its
\* executor has ended, runs to its end, and the first Await the caller makes
\* on p itself, when it waits after the time-out, returns the outcome of p
\* once p has settled.
C24_TimedOutInputUsable ==
    /\ (prod[1] \in {"settle", "recover"}) ~> (prod[1] = "finished")
    /\ (state[0] = Rejected /\ error[0] = TimedOutError
          /\ state[1] # Pending /\ pc[2] = "recv" /\ calls[2] = 1)
       ~> (pc[2] = "returned" /\ ret[2] = Held(1))

\* C25: the producer is never blocked by observers.  Once the executor has
\* returned or panicked, the producer goroutine always goes through the whole
\* settlement (the state update, its send on result or err, its send on done)
\* and terminates, whatever the observers do or do not do: the promise is then
\* settled, done holds the notification unless somebody took it, and a fault
\* nobody takes just stays on err.
C25_ProducerNeverBlocked ==
    /\ (prod[0] \in {"settle", "recover"})
          ~> (prod[0] = "finished" /\ state[0] # Pending)
    /\ (prod[0] \in {"send", "notify", "sendpanic", "notifypanic"})
          ~> (prod[0] = "finished")

\* The producer of a promise nobody ever waits on has rejected it and has
\* terminated; the fault and the notification are still in the channels.
C25_Witness ==
    /\ kind[0] = "NewPromise"
    /\ \A o \in Obs : plan[o] = "none"
    /\ prod[0] = "finished"
    /\ state[0] = Rejected
    /\ Len(err[0]) = 1
    /\ Len(done[0]) = 1

\* C26: NewPromise does not block its caller.  It returns the handle while
\* the executor runs in a goroutine of its own: as long as the executor has
\* not returned, the promise is Pending with nothing in its channels, however
\* long that lasts, and the caller is free to go on, here into the wait it has
\* planned.
C26_NewPromiseReturns ==
    (kind[0] = "NewPromise" /\ prod[0] = "exec") =>
        /\ state[0] = Pending
        /\ result[0] = <<>> /\ err[0] = <<>> /\ done[0] = <<>>
        /\ \A o \in Obs :
              (/\ plan[o] \in Ops
               /\ pc[o] \in {"idle", "returned"}
               /\ CallsMade(NumObs) < MaxCalls) => ENABLED Call(o)

\* The executor is still running, and the caller of NewPromise has gone on:
\* one wait with a timeout has returned, and one Await is standing at done.
C26_Witness ==
    /\ kind[0] = "NewPromise"
    /\ prod[0] = "exec"
    /\ state[0] = Pending
    /\ \E o \in Obs : plan[o] = "Await" /\ pc[o] = "recv"
    /\ \E o \in Obs : /\ plan[o] = "AwaitWithTimeout"
                      /\ pc[o] = "returned"
                      /\ ret[o].err = TimeoutError

\* C27: GetState, IsPending, IsFulfilled and IsRejected are snapshot reads
\* that never block.  In every state each of them can be called and returns;
\* exactly one of IsPending, IsFulfilled and IsRejected is true, the one that
\* GetState names; and the step of a read returns the state the promise has
\* at that instant and leaves the promise, its channels, its producer and
\* every wait as they are.
C27_SnapshotReads ==
    /\ [](/\ \A m \in SnapshotOps : ENABLED Snapshot(0, m)
          /\ Cardinality({m \in SnapshotOps \ {"GetState"} : SnapshotOut(0, m)}) = 1
          /\ IsPending(0) <=> GetState(0) = Pending
          /\ IsFulfilled(0) <=> GetState(0) = Fulfilled
          /\ IsRejected(0) <=> GetState(0) = Rejected)
    /\ [][snapshot' # snapshot =>
            /\ UNCHANGED <<kind, promiseVars, prodVars, agentVars, allVars>>
            /\ snapshot'.op \in SnapshotOps
            /\ snapshot'.out = SnapshotOut(0, snapshot'.op)]_vars

\* IsRejected has just returned true on a promise whose notification still
\* waits on done while an Await is about to take it.
C27_Witness ==
    /\ snapshot = [op |-> "IsRejected", out |-> TRUE]
    /\ state[0] = Rejected
    /\ Len(done[0]) = 1
    /\ \E o \in Obs : pc[o] = "recv"

\* C28: AllSettled does not settle early.  While an input is Pending, or the
\* goroutine of an input has not yet stored its record, the promise of
\* AllSettled is Pending, its executor has not returned, nothing is in its
\* channels and no Await on it has returned.
C28_AllSettledNotEarly ==
    (\/ \E i \in Inputs : state[i] = Pending
     \/ prod[0] = "wait" /\ wg > 0) =>
        /\ state[0] = Pending
        /\ prod[0] \in {"exec", "wait"}
        /\ result[0] = <<>> /\ err[0] = <<>> /\ done[0] = <<>>
        /\ \A o \in Obs : pc[o] \notin {"read", "returned"}

\* One input is Rejected and its record is stored, another input is still
\* Pending: AllSettled is Pending and the Await on it waits.
C28_Witness ==
    /\ kind[0] = "AllSettled"
    /\ state[1] = Rejected
    /\ results[1].Status = "rejected"
    /\ pc[Watcher(1)] = "exit"
    /\ state[2] = Pending
    /\ state[0] = Pending
    /\ pc[1] = "recv"

\* C29: a handler that panics inside Then, Catch or Finally is contained.
\* Once the deferred function of the producer has run, the promise of the
\* combinator is Rejected with the non-nil error "panic: <payload>"; the
\* producer goes on to its end; and the Await of the observer of that promise
\* returns (zero, that error).
C29_HandlerPanicContained ==
    /\ []((local[0].r # Nil /\ prod[0] # "recover") =>
            /\ \E h \in handlers : invoked[h] = 1
            /\ state[0] = Rejected
            /\ error[0] = PanicError(local[0].r)
            /\ error[0] # Nil)
    /\ (local[0].r # Nil) ~> (prod[0] = "finished" /\ state[0] = Rejected)
    /\ (local[0].r # Nil /\ pc[1] = "recv" /\ calls[1] = 1)
          ~> (pc[1] = "returned" /\ ret[1] = [value |-> 0, err |-> PanicError(local[0].r)])

\* Finally(p, onFinally) on a p that fulfilled: onFinally panicked, the
\* promise of Finally is Rejected with the panic and the Await has returned it.
C29_Witness ==
    /\ kind[0] = "Finally"
    /\ state[1] = Fulfilled
    /\ invoked["onFinally"] = 1
    /\ state[0] = Rejected
    /\ error[0] = "panic: boom"
    /\ pc[1] = "returned"
    /\ ret[1] = [value |-> 0, err |-> "panic: boom"]

\* The outcome of input i is one the combinator settles on: any outcome for
\* Race, a fulfilment for Any.
Decisive(i) ==
    IF kind[0] = "Race" THEN state[i] # Pending ELSE state[i] = Fulfilled

\* C30: Race and Any watch all their inputs at once.  As soon as the executor
\* of the combinator is past its start, a goroutine waits on every input; so
\* whichever input settles (Race), or fulfils (Any), the promise of the
\* combinator settles, and Any settles Fulfilled, also when the executors of
\* the other inputs never return, and at whatever position the input is.
C30_WatchAllInputs ==
    /\ [](prod[0] # "exec" => \A i \in Inputs : pc[Watcher(i)] # "idle")
    /\ []((kind[0] = "Any" /\ state[0] = Rejected) => \A i \in Inputs : ~Decisive(i))
    /\ (\E i \in Inputs : Decisive(i)) ~> (state[0] # Pending)

\* Race(f1, f2): the executor of f1 is still running, f2 is Rejected, and
\* Race is Rejected with the error of f2 and its producer has finished.
C30_Witness ==
    /\ kind[0] = "Race"
    /\ prod[1] = "exec"
    /\ state[1] = Pending
    /\ state[2] = Rejected
    /\ state[0] = Rejected
    /\ error[0] = error[2]
    /\ prod[0] = "finished"
    /\ pc[Watcher(1)] = "recv"

\* The rejected input with the lowest index.
LowestRejected == CHOOSE i \in Inputs :
    state[i] = Rejected /\ \A j \in Inputs : j < i => state[j] # Rejected

\* C31: when several inputs of All reject, the fault of All is the fault of
\* the rejected input with the lowest index.  A Rejected All holds the error
\* of that input; in particular, when a later input rejects while an earlier
\* one is still Pending and the earlier one rejects afterwards, the fault of
\* All is the fault of the earlier one.
C31_AllLowestIndexFault ==
    /\ [](state[0] = Rejected =>
            /\ \E i \in Inputs : state[i] = Rejected
            /\ error[0] = error[LowestRejected])
    /\ []((state[2] = Rejected /\ state[1] = Pending) =>
            []((state[0] = Rejected /\ state[1] = Rejected) => error[0] = error[1]))

\* All(f1, f2): f2 rejected with e2 and its error was stored while f1 was
\* not yet awaited to its end, f1 rejected with e1; All is Rejected with e1
\* and the Await on it has returned e1.
C31_Witness ==
    /\ kind[0] = "All"
    /\ error[1] = "e1" /\ state[1] = Rejected
    /\ error[2] = "e2" /\ state[2] = Rejected
    /\ state[0] = Rejected
    /\ error[0] = "e1"
    /\ pc[1] = "returned"
    /\ ret[1].err = "e1"

\* C32: Race called with no inputs never settles.  Its executor starts no
\* goroutine and stands at a select on two channels nobody sends on: the
\* promise is Pending in every state, no step of the executor is possible
\* from there, and an Await on the promise never gets past <-p.done.
C32_EmptyRacePending ==
    (kind[0] = "Race" /\ Given = {}) =>
        /\ state[0] = Pending
        /\ prod[0] \in {"exec", "select"}
        /\ done[0] = <<>> /\ chResult = <<>> /\ chErr = <<>>
        /\ prod[0] = "select" => ~ENABLED (RaceStep \/ ProducerStep(0))
        /\ \A a \in Agents : pc[a] \in {"idle", "recv"}

\* Race() stands at its select and the Await on its promise at <-p.done.
C32_Witness ==
    /\ kind[0] = "Race"
    /\ Given = {}
    /\ prod[0] = "select"
    /\ state[0] = Pending
    /\ pc[1] = "recv"

\* C33: with no inputs, All and AllSettled fulfil with the empty list and
\* Any rejects with the aggregate fault of no faults.  Each of them settles
\* without waiting for anything, and the Await on it returns that outcome.
C33_EmptyInputs ==
    /\ []((Given = {} /\ state[0] # Pending) =>
            IF kind[0] = "Any"
            THEN state[0] = Rejected /\ error[0] = "all promises rejected: []"
            ELSE state[0] = Fulfilled /\ value[0] = <<>>)
    /\ (Given = {}) ~> (state[0] # Pending /\ prod[0] = "finished")
    /\ (Given = {} /\ pc[1] = "recv" /\ calls[1] = 1)
          ~> (pc[1] = "returned" /\ ret[1] = Held(0))

\* Any() is Rejected with the fault of no faults, nothing was collected, and
\* the Await on it has returned that fault.
C33_Witness ==
    /\ kind[0] = "Any"
    /\ Given = {}
    /\ errors = <<>>
    /\ closed
    /\ state[0] = Rejected
    /\ pc[1] = "returned"
    /\ ret[1] = [value |-> 0, err |-> "all promises rejected: []"]

\* C34: for a promise made by NewPromise the state is Rejected exactly when
\* the stored error is non-nil, and an Await that has returned gives a non-nil
\* error exactly when the state is Rejected: a Fulfilled promise yields no
\* error and a Rejected one no nil error.
C34_RejectedIffError ==
    \A p \in Promises :
        kind[p] = "NewPromise" =>
            /\ state[p] = Rejected <=> error[p] # Nil
            /\ \A a \in Agents :
                  (target[a] = p /\ plan[a] = "Await" /\ pc[a] = "returned") =>
                      /\ ret[a].err # Nil <=> state[p] = Rejected
                      /\ state[p] \in {Fulfilled, Rejected}

\* One Await on a promise whose executor returned an error has returned that
\* error, and nothing else was called.
C34_Witness ==
    /\ kind[0] = "NewPromise"
    /\ local[0].err = "e2"
    /\ state[0] = Rejected
    /\ error[0] = "e2"
    /\ \E o \in Obs : Alone(o) /\ plan[o] = "Await" /\ pc[o] = "returned" /\ ret[o].err = "e2"

\* C35: in Any nothing is sent on the channel result after it was closed.
\* When result is closed every goroutine of an input has finished, and the
\* slice errors holds one fault for each input whose Await returned an error;
\* from then on no step puts a value into result or writes errors, so the
\* executor that finds result closed and empty reads the finished list.
C35_AnyNoSendAfterClose ==
    /\ [](closed =>
            /\ wg = 0
            /\ \A i \in Given : pc[Watcher(i)] = "exit"
            /\ Len(errors) = Cardinality({i \in Given : ret[Watcher(i)].err # Nil}))
    /\ [][closed =>
            /\ closed'
            /\ errors' = errors
            /\ Len(chResult') <= Len(chResult)]_vars
    /\ []((kind[0] = "Any" /\ prod[0] \notin {"exec", "receive"} /\ local[0].err # Nil) =>
            closed /\ local[0].err = AllRejectedError(errors))

\* Any(f1, f2): f1 rejected and its fault was collected, the value of f2 was
\* put into result, both goroutines have finished and result was closed
\* before the executor took the value.
C35_Witness ==
    /\ kind[0] = "Any"
    /\ closed
    /\ prod[0] = "receive"
    /\ chResult = <<value[2]>>
    /\ state[2] = Fulfilled
    /\ errors = <<error[1]>>
    /\ state[1] = Rejected
    /\ \A i \in Given : pc[Watcher(i)] = "exit"

\* C36: in Race and Any the goroutine of every input terminates once its
\* input has settled, also when the combinator has settled on another input.
\* A goroutine whose Await has returned can always take its next step, since
\* its send is dropped when the channel is full; a goroutine that has ended
\* stays ended; and from some point on every input that has settled has its
\* goroutine ended.
C36_WatchersTerminate ==
    /\ [](\A i \in Inputs :
            pc[Watcher(i)] = "returned" => ENABLED (RaceDeliver(i) \/ AnyStore(i)))
    /\ [][\A i \in Inputs : pc[Watcher(i)] = "exit" => pc'[Watcher(i)] = "exit"]_vars
    /\ <>[](\A i \in Inputs : state[i] # Pending => pc[Watcher(i)] = "exit")

\* Race(f1, f2) has settled on the value of f1 and its producer has finished;
\* f2 was rejected, its goroutine found nobody to take the error any more and
\* has ended all the same.
C36_Witness ==
    /\ kind[0] = "Race"
    /\ prod[0] = "finished"
    /\ state[0] = Fulfilled
    /\ value[0] = value[1]
    /\ state[1] = Fulfilled
    /\ state[2] = Rejected
    /\ pc[Watcher(1)] = "exit"
    /\ pc[Watcher(2)] = "exit"

\* C37: Then and ThenPromise with a nil onFulfilled on an input that fulfils
\* with v settle Fulfilled with the zero value: v is dropped, no handler is
\* called, and the promise neither rejects nor stays Pending.
C37_NilOnFulfilledGivesZero ==
    /\ []((state[1] = Fulfilled /\ "onFulfilled" \notin handlers) =>
            /\ state[0] # Rejected
            /\ state[0] = Fulfilled => value[0] = 0
            /\ invoked = [h \in Handlers |-> 0]
            /\ \A o \in Obs : pc[o] = "returned" => ret[o] = [value |-> 0, err |-> Nil])
    /\ (state[1] = Fulfilled /\ "onFulfilled" \notin handlers) ~> (state[0] = Fulfilled)

\* ThenPromise(p, nil) on a p fulfilled with 1: the promise is Fulfilled with
\* 0 and the observer has got (0, nil).
C37_Witness ==
    /\ kind[0] = "ThenPromise"
    /\ handlers = {}
    /\ state[1] = Fulfilled
    /\ value[1] = 1
    /\ state[0] = Fulfilled
    /\ value[0] = 0
    /\ pc[1] = "returned"
    /\ ret[1] = [value |-> 0, err |-> Nil]

\* C38: the occupancy of the channels of a promise.  None of result, err and
\* done ever holds more than one message, and one holds a message only when
\* the promise is settled, result only when it is Fulfilled and err only when
\* it is Rejected.  A message is put on result or err only by the one send
\* step of the producer and on done only by its last step, after which
\* nothing is sent any more; so once the producer has ended, or the promise
\* was made by Resolve or Reject, exactly one of result and err holds its
\* one message, and done holds its one message as long as no wait was called.
C38_ChannelOccupancy ==
    /\ [](\A p \in Promises :
            /\ Len(result[p]) <= 1 /\ Len(err[p]) <= 1 /\ Len(done[p]) <= 1
            /\ result[p] # <<>> => state[p] = Fulfilled
            /\ err[p] # <<>> => state[p] = Rejected
            /\ done[p] # <<>> => state[p] # Pending
            /\ (kind[p] # "unused" /\ prod[p] \in {"finished", "none"}) =>
                  /\ Len(result[p]) + Len(err[p]) = 1
                  /\ (\A a \in Agents : calls[a] = 0) => Len(done[p]) = 1)
    /\ [][\A p \in Promises :
            /\ (result'[p] # result[p] \/ err'[p] # err[p]) =>
                  /\ prod[p] \in {"send", "sendpanic"}
                  /\ prod'[p] \in {"notify", "notifypanic"}
                  /\ Len(result'[p]) + Len(err'[p]) = 1
            /\ Len(done'[p]) > Len(done[p]) =>
                  /\ prod[p] \in {"notify", "notifypanic"}
                  /\ prod'[p] = "finished"
            /\ prod[p] \in {"finished", "none"} =>
                  /\ prod'[p] = prod[p]
                  /\ Len(done'[p]) <= Len(done[p])]_vars

\* The producer of a promise nobody waits on has fulfilled it with 1 and has
\* ended: the value is on result, nothing is on err, and done holds its
\* message.
C38_Witness ==
    /\ kind[0] = "NewPromise"
    /\ \A o \in Obs : plan[o] = "none"
    /\ prod[0] = "finished"
    /\ state[0] = Fulfilled
    /\ result[0] = <<1>>
    /\ err[0] = <<>>
    /\ done[0] = <<TRUE>>
====
